---- MODULE Spec2Model ----
(***************************************************************************)
(* A model of eliza.py: the contraction normaliser, the pronoun/verb       *)
(* transformer, the response simplifier, the grammar mood adapter, the     *)
(* rule table with its dispatcher, and the conversation loop.              *)
(*                                                                         *)
(* Text is a sequence of one-character strings, so that lower(), split(),  *)
(* the regular expressions and the tokeniser are computed character by     *)
(* character.  Response templates are kept as the text before and after    *)
(* their single "{0}" placeholder.                                         *)
(***************************************************************************)
EXTENDS Integers, Sequences, FiniteSets, TLC

VARIABLES
    pc,          \* position of the running program / of the function under study
    user_name,   \* eliza_chat: the name returned by greet_user
    user_input,  \* eliza_chat: the stripped line read by input()
    printed,     \* eliza_chat: what the last print() wrote
    pattern,     \* get_response: key of the rule that matched ("" if none did)
    adapted,     \* get_response: whether handle_grammar was called in this turn
    tagger,      \* the answers the part-of-speech tagger gave in this call
    arg,         \* argument of the function under study
    ret,         \* its result
    ret2         \* the result of applying it to ret again

vars == <<pc, user_name, user_input, printed, pattern, adapted, tagger, arg, ret, ret2>>

----------------------------------------------------------------------------
(* Bounds of the model.                                                     *)

MaxPieces == 2      \* pieces of a line typed at the prompt
MaxParts == 4       \* pieces concatenated into an input of handle_contractions
MaxWords == 3       \* words in an input of transform_pronouns, handle_grammar, simplify_response

----------------------------------------------------------------------------
(* Characters and the str methods the program uses.                         *)

UPPER == <<"A","B","C","D","E","F","G","H","I","J","K","L","M",
           "N","O","P","Q","R","S","T","U","V","W","X","Y","Z">>
LOWER == <<"a","b","c","d","e","f","g","h","i","j","k","l","m",
           "n","o","p","q","r","s","t","u","v","w","x","y","z">>
DIGIT == {"0","1","2","3","4","5","6","7","8","9"}

UpperSet == {UPPER[i] : i \in 1..26}
LowerSet == {LOWER[i] : i \in 1..26}
LowerOf == [c \in UpperSet |-> LOWER[CHOOSE i \in 1..26 : UPPER[i] = c]]

\* str.lower() on one character
lower_char(c) == IF c \in UpperSet THEN LowerOf[c] ELSE c

\* str.lower()
lower(s) == [i \in 1..Len(s) |-> lower_char(s[i])]

\* \w of the re module
WordChars == UpperSet \cup LowerSet \cup DIGIT \cup {"_"}
IsWordChar(c) == c \in WordChars

\* \s of the re module, and the whitespace of str.split() and str.strip()
SpaceChars == {" ", "\t", "\n", "\r"}
IsSpace(c) == c \in SpaceChars

\* the suffix of s that starts at position p
From(s, p) == SubSeq(s, p, Len(s))

\* s[p:].startswith(t)
HasAt(s, p, t) == /\ p + Len(t) - 1 <= Len(s)
                  /\ \A i \in 1..Len(t) : s[p + i - 1] = t[i]

\* str.startswith
startswith(s, t) == HasAt(s, 1, t)

\* the same, ignoring case (re.IGNORECASE on a literal)
HasAtIgnoreCase(s, p, t) == HasAt(lower(s), p, lower(t))

Min(S) == CHOOSE x \in S : \A y \in S : x <= y
Max(S) == CHOOSE x \in S : \A y \in S : y <= x

\* index of the last character of the run of whitespace (space = TRUE) or
\* of other characters (space = FALSE) that starts at p; p - 1 if there is none
RunEnd(s, p, space) ==
    Min({q \in p..(Len(s) + 1) : q = Len(s) + 1 \/ IsSpace(s[q]) # space}) - 1

\* str.strip()
lstrip(s) == From(s, RunEnd(s, 1, TRUE) + 1)

rstrip(s) ==
    SubSeq(s, 1, Max({q \in 0..Len(s) : q = 0 \/ ~IsSpace(s[q])}))

strip(s) == rstrip(lstrip(s))

\* str.split(): the maximal runs of non-whitespace characters
RECURSIVE split(_)
split(s) ==
    LET t == lstrip(s)
        e == RunEnd(t, 1, FALSE)
    IN  IF t = <<>> THEN <<>>
        ELSE <<SubSeq(t, 1, e)>> \o split(From(t, e + 1))

\* sep.join(words)
RECURSIVE join(_, _)
join(sep, words) ==
    IF words = <<>> THEN <<>>
    ELSE IF Len(words) = 1 THEN words[1]
    ELSE words[1] \o sep \o join(sep, From(words, 2))

\* concatenation of a sequence of texts
Concat(words) == join(<<>>, words)

\* the element of a one-element set: {f(x) : x \in {e}} has e computed by
\* one statement before the next statement f uses it
Only(S) == CHOOSE x \in S : TRUE

\* all sequences over S of length at most n
SeqUpTo(S, n) == UNION {[1..k -> S] : k \in 0..n}

----------------------------------------------------------------------------
(* handle_contractions                                                      *)

\* the keys of the contractions dict, in insertion order; each value equals its key
contractions == << <<"n","'","t">>, <<"'","l","l">>, <<"'","v","e">>,
                   <<"'","r","e">>, <<"'","d">>, <<"'","m">> >>

\* end of the maximal run of \w characters starting at p
WordEnd(s, p) ==
    Min({q \in p..(Len(s) + 1) : q = Len(s) + 1 \/ ~IsWordChar(s[q])}) - 1

\* \b(\w+)\s<suffix>\b matched at position p: the index of the last matched
\* character, 0 when there is no match at p.  \w+ is greedy and the
\* character after it must be whitespace, so only the maximal run can match.
ContractionMatchEnd(s, p, suffix) ==
    LET w == WordEnd(s, p)
        e == w + 1 + Len(suffix)
    IN  IF /\ IsWordChar(s[p])
           /\ (p = 1 \/ ~IsWordChar(s[p - 1]))
           /\ w + 1 <= Len(s) /\ IsSpace(s[w + 1])
           /\ HasAt(s, w + 2, suffix)
           /\ (e = Len(s) \/ ~IsWordChar(s[e + 1]))
        THEN e ELSE 0

\* re.sub(rf"\b(\w+)\s{contraction}\b", rf"\1{correct_form}", s) from
\* position p on: matches are found left to right and do not overlap
RECURSIVE re_sub_contraction(_, _, _)
re_sub_contraction(s, p, suffix) ==
    LET found == {q \in p..Len(s) : ContractionMatchEnd(s, q, suffix) # 0}
    IN  IF found = {} THEN From(s, p)
        ELSE LET q == Min(found)
             IN  SubSeq(s, p, q - 1) \o SubSeq(s, q, WordEnd(s, q)) \o suffix
                     \o re_sub_contraction(s, ContractionMatchEnd(s, q, suffix) + 1, suffix)

\* the loop over contractions.items(), from the i-th suffix on
RECURSIVE contractions_from(_, _)
contractions_from(s, i) ==
    IF i > Len(contractions) THEN s
    ELSE Only({contractions_from(input_string, i + 1) :
                  input_string \in {re_sub_contraction(s, 1, contractions[i])}})

handle_contractions(input_string) == contractions_from(input_string, 1)

----------------------------------------------------------------------------
(* transform_pronouns                                                       *)

\* pronoun_mapping (keys are lower case; some values are capitalised)
pronoun_mapping ==
       <<"i">> :> <<"y","o","u">>    \* i -> you
    @@ <<"m","e">> :> <<"y","o","u">>    \* me -> you
    @@ <<"m","y">> :> <<"y","o","u","r">>    \* my -> your
    @@ <<"m","i","n","e">> :> <<"y","o","u","r","s">>    \* mine -> yours
    @@ <<"a","m">> :> <<"a","r","e">>    \* am -> are
    @@ <<"i","'","m">> :> <<"y","o","u","'","r","e">>    \* i'm -> you're
    @@ <<"i","'","d">> :> <<"y","o","u","'","d">>    \* i'd -> you'd
    @@ <<"i","'","v","e">> :> <<"y","o","u","'","v","e">>    \* i've -> you've
    @@ <<"i","'","l","l">> :> <<"y","o","u","'","l","l">>    \* i'll -> you'll
    @@ <<"y","o","u">> :> <<"I">>    \* you -> I
    @@ <<"y","o","u","r">> :> <<"m","y">>    \* your -> my
    @@ <<"y","o","u","r","s">> :> <<"m","i","n","e">>    \* yours -> mine
    @@ <<"y","o","u","'","r","e">> :> <<"I","'","m">>    \* you're -> I'm
    @@ <<"y","o","u","'","d">> :> <<"I","'","d">>    \* you'd -> I'd
    @@ <<"y","o","u","'","v","e">> :> <<"I","'","v","e">>    \* you've -> I've
    @@ <<"y","o","u","'","l","l">> :> <<"I","'","l","l">>    \* you'll -> I'll
    @@ <<"m","y","s","e","l","f">> :> <<"y","o","u","r","s","e","l","f">>    \* myself -> yourself
    @@ <<"y","o","u","r","s","e","l","f">> :> <<"m","y","s","e","l","f">>    \* yourself -> myself
    @@ <<"w","e">> :> <<"y","o","u">>    \* we -> you
    @@ <<"u","s">> :> <<"y","o","u">>    \* us -> you
    @@ <<"o","u","r">> :> <<"y","o","u","r">>    \* our -> your
    @@ <<"o","u","r","s">> :> <<"y","o","u","r","s">>    \* ours -> yours

\* verb_mapping: verb form -> (subject, lower case -> agreeing form)
verb_mapping ==
       <<"i","s">> :> (    \* is
              <<"i">> :> <<"a","m">>    \* i -> am
           @@ <<"y","o","u">> :> <<"a","r","e">>    \* you -> are
           @@ <<"h","e">> :> <<"i","s">>    \* he -> is
           @@ <<"s","h","e">> :> <<"i","s">>    \* she -> is
           @@ <<"i","t">> :> <<"i","s">>    \* it -> is
           @@ <<"w","e">> :> <<"a","r","e">>    \* we -> are
           @@ <<"t","h","e","y">> :> <<"a","r","e">>    \* they -> are
       )
    @@ <<"w","a","s">> :> (    \* was
              <<"i">> :> <<"w","a","s">>    \* i -> was
           @@ <<"y","o","u">> :> <<"w","e","r","e">>    \* you -> were
           @@ <<"h","e">> :> <<"w","a","s">>    \* he -> was
           @@ <<"s","h","e">> :> <<"w","a","s">>    \* she -> was
           @@ <<"i","t">> :> <<"w","a","s">>    \* it -> was
           @@ <<"w","e">> :> <<"w","e","r","e">>    \* we -> were
           @@ <<"t","h","e","y">> :> <<"w","e","r","e">>    \* they -> were
       )
    @@ <<"h","a","s">> :> (    \* has
              <<"i">> :> <<"h","a","v","e">>    \* i -> have
           @@ <<"y","o","u">> :> <<"h","a","v","e">>    \* you -> have
           @@ <<"h","e">> :> <<"h","a","s">>    \* he -> has
           @@ <<"s","h","e">> :> <<"h","a","s">>    \* she -> has
           @@ <<"i","t">> :> <<"h","a","s">>    \* it -> has
           @@ <<"w","e">> :> <<"h","a","v","e">>    \* we -> have
           @@ <<"t","h","e","y">> :> <<"h","a","v","e">>    \* they -> have
       )
    @@ <<"w","a","s","n","'","t">> :> (    \* wasn't
              <<"i">> :> <<"w","a","s","n","'","t">>    \* i -> wasn't
           @@ <<"y","o","u">> :> <<"w","e","r","e","n","'","t">>    \* you -> weren't
           @@ <<"h","e">> :> <<"w","a","s","n","'","t">>    \* he -> wasn't
           @@ <<"s","h","e">> :> <<"w","a","s","n","'","t">>    \* she -> wasn't
           @@ <<"i","t">> :> <<"w","a","s","n","'","t">>    \* it -> wasn't
           @@ <<"w","e">> :> <<"w","e","r","e","n","'","t">>    \* we -> weren't
           @@ <<"t","h","e","y">> :> <<"w","e","r","e","n","'","t">>    \* they -> weren't
       )
    @@ <<"i","s","n","'","t">> :> (    \* isn't
              <<"i">> :> <<"a","m"," ","n","o","t">>    \* i -> am not
           @@ <<"y","o","u">> :> <<"a","r","e","n","'","t">>    \* you -> aren't
           @@ <<"h","e">> :> <<"i","s","n","'","t">>    \* he -> isn't
           @@ <<"s","h","e">> :> <<"i","s","n","'","t">>    \* she -> isn't
           @@ <<"i","t">> :> <<"i","s","n","'","t">>    \* it -> isn't
           @@ <<"w","e">> :> <<"a","r","e","n","'","t">>    \* we -> aren't
           @@ <<"t","h","e","y">> :> <<"a","r","e","n","'","t">>    \* they -> aren't
       )
    @@ <<"h","a","s","n","'","t">> :> (    \* hasn't
              <<"i">> :> <<"h","a","v","e","n","'","t">>    \* i -> haven't
           @@ <<"y","o","u">> :> <<"h","a","v","e","n","'","t">>    \* you -> haven't
           @@ <<"h","e">> :> <<"h","a","s","n","'","t">>    \* he -> hasn't
           @@ <<"s","h","e">> :> <<"h","a","s","n","'","t">>    \* she -> hasn't
           @@ <<"i","t">> :> <<"h","a","s","n","'","t">>    \* it -> hasn't
           @@ <<"w","e">> :> <<"h","a","v","e","n","'","t">>    \* we -> haven't
           @@ <<"t","h","e","y">> :> <<"h","a","v","e","n","'","t">>    \* they -> haven't
       )

\* transform_words with the last branch forgetting to append the word
RECURSIVE transform_words_dropping(_, _, _)
transform_words_dropping(words, i, transformed_words) ==
    IF i > Len(words) THEN transformed_words
    ELSE LET word == words[i]
             prev_word == lower(transformed_words[Len(transformed_words)])
         IN  IF word \in DOMAIN pronoun_mapping
             THEN transform_words_dropping(words, i + 1,
                                           Append(transformed_words, pronoun_mapping[word]))
             ELSE IF i > 1 /\ lower(words[i - 1]) \in DOMAIN pronoun_mapping
             THEN transform_words_dropping(words, i + 1,
                     Append(transformed_words,
                            IF word \in DOMAIN verb_mapping
                               /\ prev_word \in DOMAIN verb_mapping[word]
                            THEN verb_mapping[word][prev_word] ELSE word))
             ELSE transform_words_dropping(words, i + 1, transformed_words)

\* the for loop of transform_pronouns from index i on; transformed_words
\* holds what the earlier iterations appended
RECURSIVE transform_words(_, _, _)
transform_words(words, i, transformed_words) ==
    IF i > Len(words) THEN transformed_words
    ELSE LET word == words[i]
             prev_word == lower(transformed_words[Len(transformed_words)])
             out == IF word \in DOMAIN pronoun_mapping
                    THEN pronoun_mapping[word]
                    ELSE IF i > 1 /\ lower(words[i - 1]) \in DOMAIN pronoun_mapping
                    THEN IF word \in DOMAIN verb_mapping
                            /\ prev_word \in DOMAIN verb_mapping[word]
                         THEN verb_mapping[word][prev_word]
                         ELSE word
                    ELSE word
         IN  transform_words(words, i + 1, Append(transformed_words, out))

\* transformed_string, the text before the final handle_contractions
transformed_string(input_string) ==
    Only({join(<<" ">>, Only({transform_words(words, 1, <<>>)})) :
             words \in {split(lower(input_string))}})

transform_pronouns(input_string) ==
    Only({handle_contractions(t) : t \in {transformed_string(input_string)}})

----------------------------------------------------------------------------
(* The tokeniser and the tagger (nltk.word_tokenize, nltk.pos_tag).  They   *)
(* are not part of the program.  The tokeniser is computed as the Treebank *)
(* tokeniser does on letters, apostrophes, spaces and . , ! ? ; the        *)
(* tagger's answers are inputs of the call.                                 *)

\* the tags of the Penn Treebank tag set that pos_tag can answer
Tags ==
    {
      <<"C","C">>, <<"C","D">>, <<"D","T">>, <<"E","X">>, <<"F","W">>, <<"I","N">>,
      <<"J","J">>, <<"J","J","R">>, <<"J","J","S">>, <<"L","S">>, <<"M","D">>, <<"N","N">>,
      <<"N","N","S">>, <<"N","N","P">>, <<"N","N","P","S">>, <<"P","D","T">>, <<"P","O","S">>, <<"P","R","P">>,
      <<"P","R","P","$">>, <<"R","B">>, <<"R","B","R">>, <<"R","B","S">>, <<"R","P">>, <<"S","Y","M">>,
      <<"T","O">>, <<"U","H">>, <<"V","B">>, <<"V","B","D">>, <<"V","B","G">>, <<"V","B","N">>,
      <<"V","B","P">>, <<"V","B","Z">>, <<"W","D","T">>, <<"W","P">>, <<"W","P","$">>, <<"W","R","B">>,
      <<".">>, <<",">>, <<":">>, <<"(">>, <<")">>, <<"`","`">>, <<"'","'">>, <<"$">>, <<"#">> }

NN == <<"N","N">>
NoTag == <<>>

\* a tag that does not start with NN, where the program only tests for that
NotNoun == <<"J","J">>

\* suffixes the tokeniser splits off the end of a word
TokenSuffixes == { <<"n","'","t">>, <<"'","l","l">>, <<"'","r","e">>, <<"'","v","e">>,
                   <<"'","s">>, <<"'","m">>, <<"'","d">> }

\* a word without punctuation: a final contraction suffix becomes a token of its own
split_suffix(w) ==
    LET fits == {x \in TokenSuffixes :
                    /\ Len(w) > Len(x)
                    /\ HasAt(lower(w), Len(w) - Len(x) + 1, x)
                    /\ w[Len(w) - Len(x)] # "'"}
    IN  IF w = <<>> THEN <<>>
        ELSE IF fits = {} THEN <<w>>
        ELSE LET x == CHOOSE y \in fits : \A z \in fits : Len(z) <= Len(y)
             IN  <<SubSeq(w, 1, Len(w) - Len(x)), From(w, Len(w) - Len(x) + 1)>>

\* one whitespace-delimited chunk from position p on, buf being the word read
\* so far: , ! ? are tokens of their own, and so is a final period
RECURSIVE tokenize_chunk(_, _, _)
tokenize_chunk(c, p, buf) ==
    IF p > Len(c) THEN split_suffix(buf)
    ELSE IF c[p] \in {",", "!", "?"} \/ (c[p] = "." /\ p = Len(c))
    THEN split_suffix(buf) \o <<(<<c[p]>>)>> \o tokenize_chunk(c, p + 1, <<>>)
    ELSE tokenize_chunk(c, p + 1, Append(buf, c[p]))

RECURSIVE tokenize_chunks(_)
tokenize_chunks(chunks) ==
    IF chunks = <<>> THEN <<>>
    ELSE tokenize_chunk(chunks[1], 1, <<>>) \o tokenize_chunks(From(chunks, 2))

word_tokenize(text) == tokenize_chunks(split(text))

\* pos_tag(tokens): pairs <<token, tag>>.  tg.nouns are the tokens that get a
\* noun tag when tagged on their own; tg.tag is the tag the third token of a
\* sentence gets.  The program reads no other tag.
pos_tag(tokens, tg) ==
    [i \in 1..Len(tokens) |->
        <<tokens[i],
          IF Len(tokens) > 1 /\ i = 3 THEN tg.tag
          ELSE IF tokens[i] \in tg.nouns THEN NN ELSE NotNoun>>]

----------------------------------------------------------------------------
(* simplify_response                                                        *)

\* the stopping tokens without the comma
stop_tokens_without_comma == {<<".">>, <<"!">>, <<"?">>}

\* the list [".", "!", "?", ","] of line 210
stop_tokens == {<<".">>, <<"!">>, <<"?">>, <<",">>}

\* the for loop of simplify_response from token i on
RECURSIVE simplify_tokens(_, _, _, _)
simplify_tokens(tokens, i, simplified, tg) ==
    IF i > Len(tokens) THEN simplified
    ELSE IF tokens[i] \in stop_tokens THEN simplified
    ELSE IF startswith(pos_tag(<<tokens[i]>>, tg)[1][2], NN)
         THEN Append(simplified, tokens[i])
         ELSE simplify_tokens(tokens, i + 1, Append(simplified, tokens[i]), tg)

\* re.sub(r"\s+", " ", s)
RECURSIVE collapse_spaces(_)
collapse_spaces(s) ==
    LET e == RunEnd(s, 1, FALSE)
    IN  IF e = Len(s) THEN s
        ELSE SubSeq(s, 1, e) \o <<" ">> \o collapse_spaces(From(s, RunEnd(s, e + 1, TRUE) + 1))

\* line 217 compares with `is` and assigns nothing
simplify_response(response, tg) ==
    Only({Only({Only({handle_contractions(simplified_string) :
                         simplified_string \in {collapse_spaces(join(<<" ">>, simplified))}}) :
                   simplified \in {simplify_tokens(tokens, 1, <<>>, tg)}}) :
             tokens \in {word_tokenize(response)}})

----------------------------------------------------------------------------
(* handle_grammar                                                           *)

feeling == <<"f","e","e","l","i","n","g"," ">>
being == <<"b","e","i","n","g"," ">>
being_a == <<"b","e","i","n","g"," ","a"," ">>
trying == <<"t","r","y","i","n","g"," ">>
whatever == <<"w","h","a","t","e","v","e","r"," ">>
means == <<" ","m","e","a","n","s">>

\* the test of line 241 without its second half
starts_with_i_only(tagged) ==
    /\ Len(tagged) > 1
    /\ lower(tagged[1][1]) = <<"i">>

\* the test of line 241: the text starts with the tokens "I" and "am" or "'m"
starts_with_i_am(tagged) ==
    /\ Len(tagged) > 1
    /\ lower(tagged[1][1]) = <<"i">>
    /\ lower(tagged[2][1]) \in {<<"a","m">>, <<"'","m">>}

handle_grammar(input_string, tg) ==
    LET tokens == word_tokenize(input_string)
        tagged == pos_tag(tokens, tg)
        relevant_input == join(<<" ">>, From(tokens, 3))
        relevant_tagged == From(tagged, 3)
        first_word_tag == IF Len(relevant_tagged) > 0 THEN relevant_tagged[1][2] ELSE NoTag
    IN  IF starts_with_i_am(tagged)
        THEN IF first_word_tag \in {<<"J","J">>, <<"J","J","R">>, <<"J","J","S">>,
                                    <<"R","B">>, <<"R","B","R">>, <<"R","B","S">>}
             THEN feeling \o relevant_input
             ELSE IF startswith(first_word_tag, <<"V","B">>)
             THEN IF first_word_tag = <<"V","B","G">>
                  THEN relevant_input
                  ELSE being \o relevant_input
             ELSE IF \/ startswith(first_word_tag, NN)
                     \/ first_word_tag \in
                          {<<"P","R","P">>, <<"P","R","P","$">>, <<"R","P">>, <<"I","N">>,
                           <<"D","T">>, <<"P","D","T">>, <<"W","D","T">>, <<"C","D">>,
                           <<"L","S">>, <<"S","Y","M">>, <<"W","P">>, <<"W","R","B">>}
             THEN IF first_word_tag = NN
                  THEN being_a \o relevant_input
                  ELSE being \o relevant_input
             ELSE IF first_word_tag \in {<<"T","O">>}
             THEN trying \o relevant_input
             ELSE IF first_word_tag \in {<<"C","C">>, <<"E","X">>, <<"F","W">>,
                                         <<"U","H">>, <<"P","O","S">>}
             THEN whatever \o relevant_input \o means
             ELSE relevant_input
        ELSE input_string

----------------------------------------------------------------------------
(* get_response: the rule table                                             *)

\* the entries of the dict literal `responses`, in the order they are written
\* (line numbers are those of src/eliza.py)
declared == <<
    \* 1 (line 317): I'm afraid of (.*)
    [key |-> <<"I","'","m"," ","a","f","r","a","i","d"," ","o","f"," ","(",".","*",")">>,
     resps |-> <<
        \* Why are you afraid of {0}?
        <<"W","h","y"," ","a","r","e"," ","y","o","u"," ","a","f","r","a","i","d"," ","o","f"," ","{","0","}","?">>,
        \* What about {0} scares you?
        <<"W","h","a","t"," ","a","b","o","u","t"," ","{","0","}"," ","s","c","a","r","e","s"," ","y","o","u","?">>,
        \* How do you usually cope with this fear?
        <<"H","o","w"," ","d","o"," ","y","o","u"," ","u","s","u","a","l","l","y"," ","c","o","p","e"," ","w","i","t","h"," ","t","h","i","s"," ","f","e","a","r","?">>
     >>],
    \* 2 (line 322): I'm worried about (.*)
    [key |-> <<"I","'","m"," ","w","o","r","r","i","e","d"," ","a","b","o","u","t"," ","(",".","*",")">>,
     resps |-> <<
        \* Why are you worried about {0}?
        <<"W","h","y"," ","a","r","e"," ","y","o","u"," ","w","o","r","r","i","e","d"," ","a","b","o","u","t"," ","{","0","}","?">>,
        \* What do you think might happen with {0}?
        <<"W","h","a","t"," ","d","o"," ","y","o","u"," ","t","h","i","n","k"," ","m","i","g","h","t"," ","h","a","p","p","e","n"," ","w","i","t","h"," ","{","0","}","?">>,
        \* How do you usually deal with worries like this?
        <<"H","o","w"," ","d","o"," ","y","o","u"," ","u","s","u","a","l","l","y"," ","d","e","a","l"," ","w","i","t","h"," ","w","o","r","r","i","e","s"," ","l","i","k","e"," ","t","h","i","s","?">>
     >>],
    \* 3 (line 327): I remember (.*)
    [key |-> <<"I"," ","r","e","m","e","m","b","e","r"," ","(",".","*",")">>,
     resps |-> <<
        \* What does {0} make you think of?
        <<"W","h","a","t"," ","d","o","e","s"," ","{","0","}"," ","m","a","k","e"," ","y","o","u"," ","t","h","i","n","k"," ","o","f","?">>,
        \* How does that memory make you feel?
        <<"H","o","w"," ","d","o","e","s"," ","t","h","a","t"," ","m","e","m","o","r","y"," ","m","a","k","e"," ","y","o","u"," ","f","e","e","l","?">>,
        \* Why is {0} significant to you?
        <<"W","h","y"," ","i","s"," ","{","0","}"," ","s","i","g","n","i","f","i","c","a","n","t"," ","t","o"," ","y","o","u","?">>
     >>],
    \* 4 (line 332): I feel like (.*)
    [key |-> <<"I"," ","f","e","e","l"," ","l","i","k","e"," ","(",".","*",")">>,
     resps |-> <<
        \* Why do you feel like {0}?
        <<"W","h","y"," ","d","o"," ","y","o","u"," ","f","e","e","l"," ","l","i","k","e"," ","{","0","}","?">>,
        \* What makes you feel like {0}?
        <<"W","h","a","t"," ","m","a","k","e","s"," ","y","o","u"," ","f","e","e","l"," ","l","i","k","e"," ","{","0","}","?">>,
        \* How does it affect you to feel like {0}?
        <<"H","o","w"," ","d","o","e","s"," ","i","t"," ","a","f","f","e","c","t"," ","y","o","u"," ","t","o"," ","f","e","e","l"," ","l","i","k","e"," ","{","0","}","?">>
     >>],
    \* 5 (line 337): I wish I could (.*)
    [key |-> <<"I"," ","w","i","s","h"," ","I"," ","c","o","u","l","d"," ","(",".","*",")">>,
     resps |-> <<
        \* What stops you from {0}?
        <<"W","h","a","t"," ","s","t","o","p","s"," ","y","o","u"," ","f","r","o","m"," ","{","0","}","?">>,
        \* How do you think you could start {0}?
        <<"H","o","w"," ","d","o"," ","y","o","u"," ","t","h","i","n","k"," ","y","o","u"," ","c","o","u","l","d"," ","s","t","a","r","t"," ","{","0","}","?">>,
        \* What would change for you if you could {0}?
        <<"W","h","a","t"," ","w","o","u","l","d"," ","c","h","a","n","g","e"," ","f","o","r"," ","y","o","u"," ","i","f"," ","y","o","u"," ","c","o","u","l","d"," ","{","0","}","?">>
     >>],
    \* 6 (line 342): People (.*)
    [key |-> <<"P","e","o","p","l","e"," ","(",".","*",")">>,
     resps |-> <<
        \* Why do you think people {0}?
        <<"W","h","y"," ","d","o"," ","y","o","u"," ","t","h","i","n","k"," ","p","e","o","p","l","e"," ","{","0","}","?">>,
        \* What kind of people {0}?
        <<"W","h","a","t"," ","k","i","n","d"," ","o","f"," ","p","e","o","p","l","e"," ","{","0","}","?">>,
        \* How do you feel about people {0}?
        <<"H","o","w"," ","d","o"," ","y","o","u"," ","f","e","e","l"," ","a","b","o","u","t"," ","p","e","o","p","l","e"," ","{","0","}","?">>
     >>],
    \* 7 (line 347): My job (.*)
    [key |-> <<"M","y"," ","j","o","b"," ","(",".","*",")">>,
     resps |-> <<
        \* Tell me more about your job.
        <<"T","e","l","l"," ","m","e"," ","m","o","r","e"," ","a","b","o","u","t"," ","y","o","u","r"," ","j","o","b",".">>,
        \* What do you like or dislike about your job?
        <<"W","h","a","t"," ","d","o"," ","y","o","u"," ","l","i","k","e"," ","o","r"," ","d","i","s","l","i","k","e"," ","a","b","o","u","t"," ","y","o","u","r"," ","j","o","b","?">>,
        \* How does your job make you feel?
        <<"H","o","w"," ","d","o","e","s"," ","y","o","u","r"," ","j","o","b"," ","m","a","k","e"," ","y","o","u"," ","f","e","e","l","?">>
     >>],
    \* 8 (line 352): My friends (.*)
    [key |-> <<"M","y"," ","f","r","i","e","n","d","s"," ","(",".","*",")">>,
     resps |-> <<
        \* Tell me more about your friends.
        <<"T","e","l","l"," ","m","e"," ","m","o","r","e"," ","a","b","o","u","t"," ","y","o","u","r"," ","f","r","i","e","n","d","s",".">>,
        \* What do you enjoy about your friends?
        <<"W","h","a","t"," ","d","o"," ","y","o","u"," ","e","n","j","o","y"," ","a","b","o","u","t"," ","y","o","u","r"," ","f","r","i","e","n","d","s","?">>,
        \* How do your friends affect your life?
        <<"H","o","w"," ","d","o"," ","y","o","u","r"," ","f","r","i","e","n","d","s"," ","a","f","f","e","c","t"," ","y","o","u","r"," ","l","i","f","e","?">>
     >>],
    \* 9 (line 357): I don't understand (.*)
    [key |-> <<"I"," ","d","o","n","'","t"," ","u","n","d","e","r","s","t","a","n","d"," ","(",".","*",")">>,
     resps |-> <<
        \* Why do you think you don't understand {0}?
        <<"W","h","y"," ","d","o"," ","y","o","u"," ","t","h","i","n","k"," ","y","o","u"," ","d","o","n","'","t"," ","u","n","d","e","r","s","t","a","n","d"," ","{","0","}","?">>,
        \* What could help you understand {0} better?
        <<"W","h","a","t"," ","c","o","u","l","d"," ","h","e","l","p"," ","y","o","u"," ","u","n","d","e","r","s","t","a","n","d"," ","{","0","}"," ","b","e","t","t","e","r","?">>,
        \* How does not understanding {0} make you feel?
        <<"H","o","w"," ","d","o","e","s"," ","n","o","t"," ","u","n","d","e","r","s","t","a","n","d","i","n","g"," ","{","0","}"," ","m","a","k","e"," ","y","o","u"," ","f","e","e","l","?">>
     >>],
    \* 10 (line 362): I feel overwhelmed (.*)
    [key |-> <<"I"," ","f","e","e","l"," ","o","v","e","r","w","h","e","l","m","e","d"," ","(",".","*",")">>,
     resps |-> <<
        \* What is overwhelming you?
        <<"W","h","a","t"," ","i","s"," ","o","v","e","r","w","h","e","l","m","i","n","g"," ","y","o","u","?">>,
        \* How do you usually cope with feeling overwhelmed?
        <<"H","o","w"," ","d","o"," ","y","o","u"," ","u","s","u","a","l","l","y"," ","c","o","p","e"," ","w","i","t","h"," ","f","e","e","l","i","n","g"," ","o","v","e","r","w","h","e","l","m","e","d","?">>,
        \* What can you do to reduce this feeling?
        <<"W","h","a","t"," ","c","a","n"," ","y","o","u"," ","d","o"," ","t","o"," ","r","e","d","u","c","e"," ","t","h","i","s"," ","f","e","e","l","i","n","g","?">>
     >>],
    \* 11 (line 367): I feel stuck (.*)
    [key |-> <<"I"," ","f","e","e","l"," ","s","t","u","c","k"," ","(",".","*",")">>,
     resps |-> <<
        \* Why do you feel stuck {0}?
        <<"W","h","y"," ","d","o"," ","y","o","u"," ","f","e","e","l"," ","s","t","u","c","k"," ","{","0","}","?">>,
        \* What can you do to move forward?
        <<"W","h","a","t"," ","c","a","n"," ","y","o","u"," ","d","o"," ","t","o"," ","m","o","v","e"," ","f","o","r","w","a","r","d","?">>,
        \* How long have you felt stuck?
        <<"H","o","w"," ","l","o","n","g"," ","h","a","v","e"," ","y","o","u"," ","f","e","l","t"," ","s","t","u","c","k","?">>
     >>],
    \* 12 (line 372): My childhood (.*)
    [key |-> <<"M","y"," ","c","h","i","l","d","h","o","o","d"," ","(",".","*",")">>,
     resps |-> <<
        \* Tell me more about your childhood.
        <<"T","e","l","l"," ","m","e"," ","m","o","r","e"," ","a","b","o","u","t"," ","y","o","u","r"," ","c","h","i","l","d","h","o","o","d",".">>,
        \* What are your most vivid childhood memories?
        <<"W","h","a","t"," ","a","r","e"," ","y","o","u","r"," ","m","o","s","t"," ","v","i","v","i","d"," ","c","h","i","l","d","h","o","o","d"," ","m","e","m","o","r","i","e","s","?">>,
        \* How do you feel about your childhood?
        <<"H","o","w"," ","d","o"," ","y","o","u"," ","f","e","e","l"," ","a","b","o","u","t"," ","y","o","u","r"," ","c","h","i","l","d","h","o","o","d","?">>
     >>],
    \* 13 (line 377): I don't like (.*)
    [key |-> <<"I"," ","d","o","n","'","t"," ","l","i","k","e"," ","(",".","*",")">>,
     resps |-> <<
        \* Why don't you like {0}?
        <<"W","h","y"," ","d","o","n","'","t"," ","y","o","u"," ","l","i","k","e"," ","{","0","}","?">>,
        \* What about {0} bothers you?
        <<"W","h","a","t"," ","a","b","o","u","t"," ","{","0","}"," ","b","o","t","h","e","r","s"," ","y","o","u","?">>,
        \* How do you usually deal with things you don't like?
        <<"H","o","w"," ","d","o"," ","y","o","u"," ","u","s","u","a","l","l","y"," ","d","e","a","l"," ","w","i","t","h"," ","t","h","i","n","g","s"," ","y","o","u"," ","d","o","n","'","t"," ","l","i","k","e","?">>
     >>],
    \* 14 (line 382): I hate (.*)
    [key |-> <<"I"," ","h","a","t","e"," ","(",".","*",")">>,
     resps |-> <<
        \* Why do you hate {0}?
        <<"W","h","y"," ","d","o"," ","y","o","u"," ","h","a","t","e"," ","{","0","}","?">>,
        \* What about {0} makes you feel this way?
        <<"W","h","a","t"," ","a","b","o","u","t"," ","{","0","}"," ","m","a","k","e","s"," ","y","o","u"," ","f","e","e","l"," ","t","h","i","s"," ","w","a","y","?">>,
        \* How do you usually express this feeling?
        <<"H","o","w"," ","d","o"," ","y","o","u"," ","u","s","u","a","l","l","y"," ","e","x","p","r","e","s","s"," ","t","h","i","s"," ","f","e","e","l","i","n","g","?">>
     >>],
    \* 15 (line 387): I enjoy (.*)
    [key |-> <<"I"," ","e","n","j","o","y"," ","(",".","*",")">>,
     resps |-> <<
        \* What do you enjoy about {0}?
        <<"W","h","a","t"," ","d","o"," ","y","o","u"," ","e","n","j","o","y"," ","a","b","o","u","t"," ","{","0","}","?">>,
        \* How often do you engage in {0}?
        <<"H","o","w"," ","o","f","t","e","n"," ","d","o"," ","y","o","u"," ","e","n","g","a","g","e"," ","i","n"," ","{","0","}","?">>,
        \* How does {0} make you feel?
        <<"H","o","w"," ","d","o","e","s"," ","{","0","}"," ","m","a","k","e"," ","y","o","u"," ","f","e","e","l","?">>
     >>],
    \* 16 (line 392): I prefer (.*)
    [key |-> <<"I"," ","p","r","e","f","e","r"," ","(",".","*",")">>,
     resps |-> <<
        \* Why do you prefer {0}?
        <<"W","h","y"," ","d","o"," ","y","o","u"," ","p","r","e","f","e","r"," ","{","0","}","?">>,
        \* What makes {0} better for you?
        <<"W","h","a","t"," ","m","a","k","e","s"," ","{","0","}"," ","b","e","t","t","e","r"," ","f","o","r"," ","y","o","u","?">>,
        \* How does preferring {0} affect your choices?
        <<"H","o","w"," ","d","o","e","s"," ","p","r","e","f","e","r","r","i","n","g"," ","{","0","}"," ","a","f","f","e","c","t"," ","y","o","u","r"," ","c","h","o","i","c","e","s","?">>
     >>],
    \* 17 (line 397): I dislike (.*)
    [key |-> <<"I"," ","d","i","s","l","i","k","e"," ","(",".","*",")">>,
     resps |-> <<
        \* Why do you dislike {0}?
        <<"W","h","y"," ","d","o"," ","y","o","u"," ","d","i","s","l","i","k","e"," ","{","0","}","?">>,
        \* What about {0} makes you feel this way?
        <<"W","h","a","t"," ","a","b","o","u","t"," ","{","0","}"," ","m","a","k","e","s"," ","y","o","u"," ","f","e","e","l"," ","t","h","i","s"," ","w","a","y","?">>,
        \* How do you usually handle things you dislike?
        <<"H","o","w"," ","d","o"," ","y","o","u"," ","u","s","u","a","l","l","y"," ","h","a","n","d","l","e"," ","t","h","i","n","g","s"," ","y","o","u"," ","d","i","s","l","i","k","e","?">>
     >>],
    \* 18 (line 402): I'm unsure about (.*)
    [key |-> <<"I","'","m"," ","u","n","s","u","r","e"," ","a","b","o","u","t"," ","(",".","*",")">>,
     resps |-> <<
        \* Why are you unsure about {0}?
        <<"W","h","y"," ","a","r","e"," ","y","o","u"," ","u","n","s","u","r","e"," ","a","b","o","u","t"," ","{","0","}","?">>,
        \* What would help you feel more certain about {0}?
        <<"W","h","a","t"," ","w","o","u","l","d"," ","h","e","l","p"," ","y","o","u"," ","f","e","e","l"," ","m","o","r","e"," ","c","e","r","t","a","i","n"," ","a","b","o","u","t"," ","{","0","}","?">>,
        \* How does being unsure about {0} affect you?
        <<"H","o","w"," ","d","o","e","s"," ","b","e","i","n","g"," ","u","n","s","u","r","e"," ","a","b","o","u","t"," ","{","0","}"," ","a","f","f","e","c","t"," ","y","o","u","?">>
     >>],
    \* 19 (line 407): (.*)\?
    [key |-> <<"(",".","*",")","\\","?">>,
     resps |-> <<
        \* Why do you ask that?
        <<"W","h","y"," ","d","o"," ","y","o","u"," ","a","s","k"," ","t","h","a","t","?">>,
        \* What do you think?
        <<"W","h","a","t"," ","d","o"," ","y","o","u"," ","t","h","i","n","k","?">>,
        \* How would an answer to that help you?
        <<"H","o","w"," ","w","o","u","l","d"," ","a","n"," ","a","n","s","w","e","r"," ","t","o"," ","t","h","a","t"," ","h","e","l","p"," ","y","o","u","?">>
     >>],
    \* 20 (line 412): (.*) problem(.*)
    [key |-> <<"(",".","*",")"," ","p","r","o","b","l","e","m","(",".","*",")">>,
     resps |-> <<
        \* Tell me more about that problem.
        <<"T","e","l","l"," ","m","e"," ","m","o","r","e"," ","a","b","o","u","t"," ","t","h","a","t"," ","p","r","o","b","l","e","m",".">>,
        \* How do you usually deal with problems like that?
        <<"H","o","w"," ","d","o"," ","y","o","u"," ","u","s","u","a","l","l","y"," ","d","e","a","l"," ","w","i","t","h"," ","p","r","o","b","l","e","m","s"," ","l","i","k","e"," ","t","h","a","t","?">>,
        \* What do you think is causing this problem?
        <<"W","h","a","t"," ","d","o"," ","y","o","u"," ","t","h","i","n","k"," ","i","s"," ","c","a","u","s","i","n","g"," ","t","h","i","s"," ","p","r","o","b","l","e","m","?">>
     >>],
    \* 21 (line 417): (.*) happy(.*)
    [key |-> <<"(",".","*",")"," ","h","a","p","p","y","(",".","*",")">>,
     resps |-> <<
        \* What makes you feel happy?
        <<"W","h","a","t"," ","m","a","k","e","s"," ","y","o","u"," ","f","e","e","l"," ","h","a","p","p","y","?">>,
        \* Tell me more about what's making you happy.
        <<"T","e","l","l"," ","m","e"," ","m","o","r","e"," ","a","b","o","u","t"," ","w","h","a","t","'","s"," ","m","a","k","i","n","g"," ","y","o","u"," ","h","a","p","p","y",".">>,
        \* How long have you felt this way?
        <<"H","o","w"," ","l","o","n","g"," ","h","a","v","e"," ","y","o","u"," ","f","e","l","t"," ","t","h","i","s"," ","w","a","y","?">>
     >>],
    \* 22 (line 422): (.*) sad(.*)
    [key |-> <<"(",".","*",")"," ","s","a","d","(",".","*",")">>,
     resps |-> <<
        \* Why do you feel sad?
        <<"W","h","y"," ","d","o"," ","y","o","u"," ","f","e","e","l"," ","s","a","d","?">>,
        \* What usually helps you feel better when you're sad?
        <<"W","h","a","t"," ","u","s","u","a","l","l","y"," ","h","e","l","p","s"," ","y","o","u"," ","f","e","e","l"," ","b","e","t","t","e","r"," ","w","h","e","n"," ","y","o","u","'","r","e"," ","s","a","d","?">>,
        \* How long have you been feeling this way?
        <<"H","o","w"," ","l","o","n","g"," ","h","a","v","e"," ","y","o","u"," ","b","e","e","n"," ","f","e","e","l","i","n","g"," ","t","h","i","s"," ","w","a","y","?">>
     >>],
    \* 23 (line 427): (.*) angry(.*)
    [key |-> <<"(",".","*",")"," ","a","n","g","r","y","(",".","*",")">>,
     resps |-> <<
        \* What makes you feel angry?
        <<"W","h","a","t"," ","m","a","k","e","s"," ","y","o","u"," ","f","e","e","l"," ","a","n","g","r","y","?">>,
        \* How do you usually express your anger?
        <<"H","o","w"," ","d","o"," ","y","o","u"," ","u","s","u","a","l","l","y"," ","e","x","p","r","e","s","s"," ","y","o","u","r"," ","a","n","g","e","r","?">>,
        \* What do you think can help you calm down?
        <<"W","h","a","t"," ","d","o"," ","y","o","u"," ","t","h","i","n","k"," ","c","a","n"," ","h","e","l","p"," ","y","o","u"," ","c","a","l","m"," ","d","o","w","n","?">>
     >>],
    \* 24 (line 432): (.*) worried(.*)
    [key |-> <<"(",".","*",")"," ","w","o","r","r","i","e","d","(",".","*",")">>,
     resps |-> <<
        \* Why do you feel worried?
        <<"W","h","y"," ","d","o"," ","y","o","u"," ","f","e","e","l"," ","w","o","r","r","i","e","d","?">>,
        \* What do you think is the cause of your worry?
        <<"W","h","a","t"," ","d","o"," ","y","o","u"," ","t","h","i","n","k"," ","i","s"," ","t","h","e"," ","c","a","u","s","e"," ","o","f"," ","y","o","u","r"," ","w","o","r","r","y","?">>,
        \* How do you usually cope with worry?
        <<"H","o","w"," ","d","o"," ","y","o","u"," ","u","s","u","a","l","l","y"," ","c","o","p","e"," ","w","i","t","h"," ","w","o","r","r","y","?">>
     >>],
    \* 25 (line 437): (.*) excited(.*)
    [key |-> <<"(",".","*",")"," ","e","x","c","i","t","e","d","(",".","*",")">>,
     resps |-> <<
        \* What are you excited about?
        <<"W","h","a","t"," ","a","r","e"," ","y","o","u"," ","e","x","c","i","t","e","d"," ","a","b","o","u","t","?">>,
        \* How long have you been feeling this way?
        <<"H","o","w"," ","l","o","n","g"," ","h","a","v","e"," ","y","o","u"," ","b","e","e","n"," ","f","e","e","l","i","n","g"," ","t","h","i","s"," ","w","a","y","?">>,
        \* What usually makes you excited?
        <<"W","h","a","t"," ","u","s","u","a","l","l","y"," ","m","a","k","e","s"," ","y","o","u"," ","e","x","c","i","t","e","d","?">>
     >>],
    \* 26 (line 442): (.*) confused(.*)
    [key |-> <<"(",".","*",")"," ","c","o","n","f","u","s","e","d","(",".","*",")">>,
     resps |-> <<
        \* What is confusing you?
        <<"W","h","a","t"," ","i","s"," ","c","o","n","f","u","s","i","n","g"," ","y","o","u","?">>,
        \* How do you usually deal with confusion?
        <<"H","o","w"," ","d","o"," ","y","o","u"," ","u","s","u","a","l","l","y"," ","d","e","a","l"," ","w","i","t","h"," ","c","o","n","f","u","s","i","o","n","?">>,
        \* What do you think could help you understand better?
        <<"W","h","a","t"," ","d","o"," ","y","o","u"," ","t","h","i","n","k"," ","c","o","u","l","d"," ","h","e","l","p"," ","y","o","u"," ","u","n","d","e","r","s","t","a","n","d"," ","b","e","t","t","e","r","?">>
     >>],
    \* 27 (line 447): (.*) love(.*)
    [key |-> <<"(",".","*",")"," ","l","o","v","e","(",".","*",")">>,
     resps |-> <<
        \* Tell me more about this feeling of love.
        <<"T","e","l","l"," ","m","e"," ","m","o","r","e"," ","a","b","o","u","t"," ","t","h","i","s"," ","f","e","e","l","i","n","g"," ","o","f"," ","l","o","v","e",".">>,
        \* Who do you feel this way about?
        <<"W","h","o"," ","d","o"," ","y","o","u"," ","f","e","e","l"," ","t","h","i","s"," ","w","a","y"," ","a","b","o","u","t","?">>,
        \* How long have you felt this way?
        <<"H","o","w"," ","l","o","n","g"," ","h","a","v","e"," ","y","o","u"," ","f","e","l","t"," ","t","h","i","s"," ","w","a","y","?">>
     >>],
    \* 28 (line 452): (.*) afraid(.*)
    [key |-> <<"(",".","*",")"," ","a","f","r","a","i","d","(",".","*",")">>,
     resps |-> <<
        \* Why do you feel afraid?
        <<"W","h","y"," ","d","o"," ","y","o","u"," ","f","e","e","l"," ","a","f","r","a","i","d","?">>,
        \* What do you think is causing this fear?
        <<"W","h","a","t"," ","d","o"," ","y","o","u"," ","t","h","i","n","k"," ","i","s"," ","c","a","u","s","i","n","g"," ","t","h","i","s"," ","f","e","a","r","?">>,
        \* How do you usually deal with fear?
        <<"H","o","w"," ","d","o"," ","y","o","u"," ","u","s","u","a","l","l","y"," ","d","e","a","l"," ","w","i","t","h"," ","f","e","a","r","?">>
     >>],
    \* 29 (line 457): (.*) dreams(.*)
    [key |-> <<"(",".","*",")"," ","d","r","e","a","m","s","(",".","*",")">>,
     resps |-> <<
        \* What kind of dreams have you been having?
        <<"W","h","a","t"," ","k","i","n","d"," ","o","f"," ","d","r","e","a","m","s"," ","h","a","v","e"," ","y","o","u"," ","b","e","e","n"," ","h","a","v","i","n","g","?">>,
        \* Do you remember any specific dreams?
        <<"D","o"," ","y","o","u"," ","r","e","m","e","m","b","e","r"," ","a","n","y"," ","s","p","e","c","i","f","i","c"," ","d","r","e","a","m","s","?">>,
        \* How do these dreams make you feel?
        <<"H","o","w"," ","d","o"," ","t","h","e","s","e"," ","d","r","e","a","m","s"," ","m","a","k","e"," ","y","o","u"," ","f","e","e","l","?">>
     >>],
    \* 30 (line 462): (.*) past(.*)
    [key |-> <<"(",".","*",")"," ","p","a","s","t","(",".","*",")">>,
     resps |-> <<
        \* Do you often think about the past?
        <<"D","o"," ","y","o","u"," ","o","f","t","e","n"," ","t","h","i","n","k"," ","a","b","o","u","t"," ","t","h","e"," ","p","a","s","t","?">>,
        \* What specifically from the past are you thinking about?
        <<"W","h","a","t"," ","s","p","e","c","i","f","i","c","a","l","l","y"," ","f","r","o","m"," ","t","h","e"," ","p","a","s","t"," ","a","r","e"," ","y","o","u"," ","t","h","i","n","k","i","n","g"," ","a","b","o","u","t","?">>,
        \* How does thinking about the past make you feel?
        <<"H","o","w"," ","d","o","e","s"," ","t","h","i","n","k","i","n","g"," ","a","b","o","u","t"," ","t","h","e"," ","p","a","s","t"," ","m","a","k","e"," ","y","o","u"," ","f","e","e","l","?">>
     >>],
    \* 31 (line 467): (.*) future(.*)
    [key |-> <<"(",".","*",")"," ","f","u","t","u","r","e","(",".","*",")">>,
     resps |-> <<
        \* What are your thoughts about the future?
        <<"W","h","a","t"," ","a","r","e"," ","y","o","u","r"," ","t","h","o","u","g","h","t","s"," ","a","b","o","u","t"," ","t","h","e"," ","f","u","t","u","r","e","?">>,
        \* Does thinking about the future make you anxious?
        <<"D","o","e","s"," ","t","h","i","n","k","i","n","g"," ","a","b","o","u","t"," ","t","h","e"," ","f","u","t","u","r","e"," ","m","a","k","e"," ","y","o","u"," ","a","n","x","i","o","u","s","?">>,
        \* What are you looking forward to?
        <<"W","h","a","t"," ","a","r","e"," ","y","o","u"," ","l","o","o","k","i","n","g"," ","f","o","r","w","a","r","d"," ","t","o","?">>
     >>],
    \* 32 (line 472): (.*) work(.*)
    [key |-> <<"(",".","*",")"," ","w","o","r","k","(",".","*",")">>,
     resps |-> <<
        \* Tell me more about your work.
        <<"T","e","l","l"," ","m","e"," ","m","o","r","e"," ","a","b","o","u","t"," ","y","o","u","r"," ","w","o","r","k",".">>,
        \* Do you enjoy your work?
        <<"D","o"," ","y","o","u"," ","e","n","j","o","y"," ","y","o","u","r"," ","w","o","r","k","?">>,
        \* What do you find most challenging about your work?
        <<"W","h","a","t"," ","d","o"," ","y","o","u"," ","f","i","n","d"," ","m","o","s","t"," ","c","h","a","l","l","e","n","g","i","n","g"," ","a","b","o","u","t"," ","y","o","u","r"," ","w","o","r","k","?">>
     >>],
    \* 33 (line 477): (.*) family(.*)
    [key |-> <<"(",".","*",")"," ","f","a","m","i","l","y","(",".","*",")">>,
     resps |-> <<
        \* Tell me more about your family.
        <<"T","e","l","l"," ","m","e"," ","m","o","r","e"," ","a","b","o","u","t"," ","y","o","u","r"," ","f","a","m","i","l","y",".">>,
        \* How do you feel about your family?
        <<"H","o","w"," ","d","o"," ","y","o","u"," ","f","e","e","l"," ","a","b","o","u","t"," ","y","o","u","r"," ","f","a","m","i","l","y","?">>,
        \* What is your relationship with your family like?
        <<"W","h","a","t"," ","i","s"," ","y","o","u","r"," ","r","e","l","a","t","i","o","n","s","h","i","p"," ","w","i","t","h"," ","y","o","u","r"," ","f","a","m","i","l","y"," ","l","i","k","e","?">>
     >>],
    \* 34 (line 482): (.*) relationships(.*)
    [key |-> <<"(",".","*",")"," ","r","e","l","a","t","i","o","n","s","h","i","p","s","(",".","*",")">>,
     resps |-> <<
        \* How do you feel about your relationships?
        <<"H","o","w"," ","d","o"," ","y","o","u"," ","f","e","e","l"," ","a","b","o","u","t"," ","y","o","u","r"," ","r","e","l","a","t","i","o","n","s","h","i","p","s","?">>,
        \* What is the most important thing to you in a relationship?
        <<"W","h","a","t"," ","i","s"," ","t","h","e"," ","m","o","s","t"," ","i","m","p","o","r","t","a","n","t"," ","t","h","i","n","g"," ","t","o"," ","y","o","u"," ","i","n"," ","a"," ","r","e","l","a","t","i","o","n","s","h","i","p","?">>,
        \* Have you had any significant relationships recently?
        <<"H","a","v","e"," ","y","o","u"," ","h","a","d"," ","a","n","y"," ","s","i","g","n","i","f","i","c","a","n","t"," ","r","e","l","a","t","i","o","n","s","h","i","p","s"," ","r","e","c","e","n","t","l","y","?">>
     >>],
    \* 35 (line 487): (.*) school(.*)
    [key |-> <<"(",".","*",")"," ","s","c","h","o","o","l","(",".","*",")">>,
     resps |-> <<
        \* Tell me more about your school experience.
        <<"T","e","l","l"," ","m","e"," ","m","o","r","e"," ","a","b","o","u","t"," ","y","o","u","r"," ","s","c","h","o","o","l"," ","e","x","p","e","r","i","e","n","c","e",".">>,
        \* Do you enjoy school?
        <<"D","o"," ","y","o","u"," ","e","n","j","o","y"," ","s","c","h","o","o","l","?">>,
        \* What do you find most challenging about school?
        <<"W","h","a","t"," ","d","o"," ","y","o","u"," ","f","i","n","d"," ","m","o","s","t"," ","c","h","a","l","l","e","n","g","i","n","g"," ","a","b","o","u","t"," ","s","c","h","o","o","l","?">>
     >>],
    \* 36 (line 492): (.*) health(.*)
    [key |-> <<"(",".","*",")"," ","h","e","a","l","t","h","(",".","*",")">>,
     resps |-> <<
        \* How is your health?
        <<"H","o","w"," ","i","s"," ","y","o","u","r"," ","h","e","a","l","t","h","?">>,
        \* Are you concerned about any health issues?
        <<"A","r","e"," ","y","o","u"," ","c","o","n","c","e","r","n","e","d"," ","a","b","o","u","t"," ","a","n","y"," ","h","e","a","l","t","h"," ","i","s","s","u","e","s","?">>,
        \* What do you do to maintain your health?
        <<"W","h","a","t"," ","d","o"," ","y","o","u"," ","d","o"," ","t","o"," ","m","a","i","n","t","a","i","n"," ","y","o","u","r"," ","h","e","a","l","t","h","?">>
     >>],
    \* 37 (line 497): (.*) hobbies(.*)
    [key |-> <<"(",".","*",")"," ","h","o","b","b","i","e","s","(",".","*",")">>,
     resps |-> <<
        \* What hobbies do you enjoy?
        <<"W","h","a","t"," ","h","o","b","b","i","e","s"," ","d","o"," ","y","o","u"," ","e","n","j","o","y","?">>,
        \* How often do you engage in your hobbies?
        <<"H","o","w"," ","o","f","t","e","n"," ","d","o"," ","y","o","u"," ","e","n","g","a","g","e"," ","i","n"," ","y","o","u","r"," ","h","o","b","b","i","e","s","?">>,
        \* How do your hobbies make you feel?
        <<"H","o","w"," ","d","o"," ","y","o","u","r"," ","h","o","b","b","i","e","s"," ","m","a","k","e"," ","y","o","u"," ","f","e","e","l","?">>
     >>],
    \* 38 (line 502): (.*) travel(.*)
    [key |-> <<"(",".","*",")"," ","t","r","a","v","e","l","(",".","*",")">>,
     resps |-> <<
        \* Do you like to travel?
        <<"D","o"," ","y","o","u"," ","l","i","k","e"," ","t","o"," ","t","r","a","v","e","l","?">>,
        \* Tell me about a recent trip you've taken.
        <<"T","e","l","l"," ","m","e"," ","a","b","o","u","t"," ","a"," ","r","e","c","e","n","t"," ","t","r","i","p"," ","y","o","u","'","v","e"," ","t","a","k","e","n",".">>,
        \* What places would you like to visit?
        <<"W","h","a","t"," ","p","l","a","c","e","s"," ","w","o","u","l","d"," ","y","o","u"," ","l","i","k","e"," ","t","o"," ","v","i","s","i","t","?">>
     >>],
    \* 39 (line 507): (.*) stress(.*)
    [key |-> <<"(",".","*",")"," ","s","t","r","e","s","s","(",".","*",")">>,
     resps |-> <<
        \* What is causing you stress?
        <<"W","h","a","t"," ","i","s"," ","c","a","u","s","i","n","g"," ","y","o","u"," ","s","t","r","e","s","s","?">>,
        \* How do you usually handle stress?
        <<"H","o","w"," ","d","o"," ","y","o","u"," ","u","s","u","a","l","l","y"," ","h","a","n","d","l","e"," ","s","t","r","e","s","s","?">>,
        \* What can you do to reduce your stress?
        <<"W","h","a","t"," ","c","a","n"," ","y","o","u"," ","d","o"," ","t","o"," ","r","e","d","u","c","e"," ","y","o","u","r"," ","s","t","r","e","s","s","?">>
     >>],
    \* 40 (line 512): (.*) goals(.*)
    [key |-> <<"(",".","*",")"," ","g","o","a","l","s","(",".","*",")">>,
     resps |-> <<
        \* What are your current goals?
        <<"W","h","a","t"," ","a","r","e"," ","y","o","u","r"," ","c","u","r","r","e","n","t"," ","g","o","a","l","s","?">>,
        \* How do you plan to achieve your goals?
        <<"H","o","w"," ","d","o"," ","y","o","u"," ","p","l","a","n"," ","t","o"," ","a","c","h","i","e","v","e"," ","y","o","u","r"," ","g","o","a","l","s","?">>,
        \* What motivates you to pursue your goals?
        <<"W","h","a","t"," ","m","o","t","i","v","a","t","e","s"," ","y","o","u"," ","t","o"," ","p","u","r","s","u","e"," ","y","o","u","r"," ","g","o","a","l","s","?">>
     >>],
    \* 41 (line 517): (.*) changes(.*)
    [key |-> <<"(",".","*",")"," ","c","h","a","n","g","e","s","(",".","*",")">>,
     resps |-> <<
        \* What changes are you experiencing?
        <<"W","h","a","t"," ","c","h","a","n","g","e","s"," ","a","r","e"," ","y","o","u"," ","e","x","p","e","r","i","e","n","c","i","n","g","?">>,
        \* How do you feel about these changes?
        <<"H","o","w"," ","d","o"," ","y","o","u"," ","f","e","e","l"," ","a","b","o","u","t"," ","t","h","e","s","e"," ","c","h","a","n","g","e","s","?">>,
        \* What can you do to adapt to these changes?
        <<"W","h","a","t"," ","c","a","n"," ","y","o","u"," ","d","o"," ","t","o"," ","a","d","a","p","t"," ","t","o"," ","t","h","e","s","e"," ","c","h","a","n","g","e","s","?">>
     >>],
    \* 42 (line 522): I want (.*)
    [key |-> <<"I"," ","w","a","n","t"," ","(",".","*",")">>,
     resps |-> <<
        \* Why do you want {0}?
        <<"W","h","y"," ","d","o"," ","y","o","u"," ","w","a","n","t"," ","{","0","}","?">>,
        \* How would it feel if you got {0}?
        <<"H","o","w"," ","w","o","u","l","d"," ","i","t"," ","f","e","e","l"," ","i","f"," ","y","o","u"," ","g","o","t"," ","{","0","}","?">>,
        \* What would you do if you got {0}?
        <<"W","h","a","t"," ","w","o","u","l","d"," ","y","o","u"," ","d","o"," ","i","f"," ","y","o","u"," ","g","o","t"," ","{","0","}","?">>,
        \* I see. And what does that tell you?
        <<"I"," ","s","e","e","."," ","A","n","d"," ","w","h","a","t"," ","d","o","e","s"," ","t","h","a","t"," ","t","e","l","l"," ","y","o","u","?">>
     >>],
    \* 43 (line 528): I need (.*)
    [key |-> <<"I"," ","n","e","e","d"," ","(",".","*",")">>,
     resps |-> <<
        \* Why do you need {0}?
        <<"W","h","y"," ","d","o"," ","y","o","u"," ","n","e","e","d"," ","{","0","}","?">>,
        \* Would it really help you to get {0}?
        <<"W","o","u","l","d"," ","i","t"," ","r","e","a","l","l","y"," ","h","e","l","p"," ","y","o","u"," ","t","o"," ","g","e","t"," ","{","0","}","?">>,
        \* Are you sure you need {0}?
        <<"A","r","e"," ","y","o","u"," ","s","u","r","e"," ","y","o","u"," ","n","e","e","d"," ","{","0","}","?">>
     >>],
    \* 44 (line 533): Why don't you (.*)
    [key |-> <<"W","h","y"," ","d","o","n","'","t"," ","y","o","u"," ","(",".","*",")">>,
     resps |-> <<
        \* Do you really think I don't {0}?
        <<"D","o"," ","y","o","u"," ","r","e","a","l","l","y"," ","t","h","i","n","k"," ","I"," ","d","o","n","'","t"," ","{","0","}","?">>,
        \* Perhaps eventually I will {0}.
        <<"P","e","r","h","a","p","s"," ","e","v","e","n","t","u","a","l","l","y"," ","I"," ","w","i","l","l"," ","{","0","}",".">>,
        \* Do you really want me to {0}?
        <<"D","o"," ","y","o","u"," ","r","e","a","l","l","y"," ","w","a","n","t"," ","m","e"," ","t","o"," ","{","0","}","?">>
     >>],
    \* 45 (line 538): Why can't I (.*)
    [key |-> <<"W","h","y"," ","c","a","n","'","t"," ","I"," ","(",".","*",")">>,
     resps |-> <<
        \* Do you think you should be able to {0}?
        <<"D","o"," ","y","o","u"," ","t","h","i","n","k"," ","y","o","u"," ","s","h","o","u","l","d"," ","b","e"," ","a","b","l","e"," ","t","o"," ","{","0","}","?">>,
        \* If you could {0}, what would you do?
        <<"I","f"," ","y","o","u"," ","c","o","u","l","d"," ","{","0","}",","," ","w","h","a","t"," ","w","o","u","l","d"," ","y","o","u"," ","d","o","?">>,
        \* I don't know -- why can't you {0}?
        <<"I"," ","d","o","n","'","t"," ","k","n","o","w"," ","-","-"," ","w","h","y"," ","c","a","n","'","t"," ","y","o","u"," ","{","0","}","?">>
     >>],
    \* 46 (line 543): I can't (.*)
    [key |-> <<"I"," ","c","a","n","'","t"," ","(",".","*",")">>,
     resps |-> <<
        \* How do you know you can't {0}?
        <<"H","o","w"," ","d","o"," ","y","o","u"," ","k","n","o","w"," ","y","o","u"," ","c","a","n","'","t"," ","{","0","}","?">>,
        \* Perhaps you could {0} if you tried.
        <<"P","e","r","h","a","p","s"," ","y","o","u"," ","c","o","u","l","d"," ","{","0","}"," ","i","f"," ","y","o","u"," ","t","r","i","e","d",".">>,
        \* What would it take for you to {0}?
        <<"W","h","a","t"," ","w","o","u","l","d"," ","i","t"," ","t","a","k","e"," ","f","o","r"," ","y","o","u"," ","t","o"," ","{","0","}","?">>
     >>],
    \* 47 (line 548): I am (.*)
    [key |-> <<"I"," ","a","m"," ","(",".","*",")">>,
     resps |-> <<
        \* How long have you been {0}?
        <<"H","o","w"," ","l","o","n","g"," ","h","a","v","e"," ","y","o","u"," ","b","e","e","n"," ","{","0","}","?">>,
        \* How do you feel about {0}?
        <<"H","o","w"," ","d","o"," ","y","o","u"," ","f","e","e","l"," ","a","b","o","u","t"," ","{","0","}","?">>,
        \* Do you enjoy {0}?
        <<"D","o"," ","y","o","u"," ","e","n","j","o","y"," ","{","0","}","?">>
     >>],
    \* 48 (line 553): I'm (.*)
    [key |-> <<"I","'","m"," ","(",".","*",")">>,
     resps |-> <<
        \* How does {0} make you feel?
        <<"H","o","w"," ","d","o","e","s"," ","{","0","}"," ","m","a","k","e"," ","y","o","u"," ","f","e","e","l","?">>,
        \* Do you enjoy {0}?
        <<"D","o"," ","y","o","u"," ","e","n","j","o","y"," ","{","0","}","?">>,
        \* Why do you tell me you're {0}?
        <<"W","h","y"," ","d","o"," ","y","o","u"," ","t","e","l","l"," ","m","e"," ","y","o","u","'","r","e"," ","{","0","}","?">>
     >>],
    \* 49 (line 558): Are you (.*)
    [key |-> <<"A","r","e"," ","y","o","u"," ","(",".","*",")">>,
     resps |-> <<
        \* Why does it matter whether I am {0}?
        <<"W","h","y"," ","d","o","e","s"," ","i","t"," ","m","a","t","t","e","r"," ","w","h","e","t","h","e","r"," ","I"," ","a","m"," ","{","0","}","?">>,
        \* Would you prefer if I were not {0}?
        <<"W","o","u","l","d"," ","y","o","u"," ","p","r","e","f","e","r"," ","i","f"," ","I"," ","w","e","r","e"," ","n","o","t"," ","{","0","}","?">>,
        \* Perhaps you believe I am {0}.
        <<"P","e","r","h","a","p","s"," ","y","o","u"," ","b","e","l","i","e","v","e"," ","I"," ","a","m"," ","{","0","}",".">>
     >>],
    \* 50 (line 563): What (.*)
    [key |-> <<"W","h","a","t"," ","(",".","*",")">>,
     resps |-> <<
        \* Why do you ask?
        <<"W","h","y"," ","d","o"," ","y","o","u"," ","a","s","k","?">>,
        \* How would an answer to that help you?
        <<"H","o","w"," ","w","o","u","l","d"," ","a","n"," ","a","n","s","w","e","r"," ","t","o"," ","t","h","a","t"," ","h","e","l","p"," ","y","o","u","?">>,
        \* What do you think?
        <<"W","h","a","t"," ","d","o"," ","y","o","u"," ","t","h","i","n","k","?">>
     >>],
    \* 51 (line 568): How (.*)
    [key |-> <<"H","o","w"," ","(",".","*",")">>,
     resps |-> <<
        \* How do you suppose?
        <<"H","o","w"," ","d","o"," ","y","o","u"," ","s","u","p","p","o","s","e","?">>,
        \* Perhaps you can answer your own question.
        <<"P","e","r","h","a","p","s"," ","y","o","u"," ","c","a","n"," ","a","n","s","w","e","r"," ","y","o","u","r"," ","o","w","n"," ","q","u","e","s","t","i","o","n",".">>,
        \* What is it you're really asking?
        <<"W","h","a","t"," ","i","s"," ","i","t"," ","y","o","u","'","r","e"," ","r","e","a","l","l","y"," ","a","s","k","i","n","g","?">>
     >>],
    \* 52 (line 573): Because (.*)
    [key |-> <<"B","e","c","a","u","s","e"," ","(",".","*",")">>,
     resps |-> <<
        \* Is that the real reason?
        <<"I","s"," ","t","h","a","t"," ","t","h","e"," ","r","e","a","l"," ","r","e","a","s","o","n","?">>,
        \* What other reasons come to mind?
        <<"W","h","a","t"," ","o","t","h","e","r"," ","r","e","a","s","o","n","s"," ","c","o","m","e"," ","t","o"," ","m","i","n","d","?">>,
        \* Does that reason apply to anything else?
        <<"D","o","e","s"," ","t","h","a","t"," ","r","e","a","s","o","n"," ","a","p","p","l","y"," ","t","o"," ","a","n","y","t","h","i","n","g"," ","e","l","s","e","?">>,
        \* If {0}, what else must be true?
        <<"I","f"," ","{","0","}",","," ","w","h","a","t"," ","e","l","s","e"," ","m","u","s","t"," ","b","e"," ","t","r","u","e","?">>
     >>],
    \* 53 (line 579): (.*) sorry (.*)
    [key |-> <<"(",".","*",")"," ","s","o","r","r","y"," ","(",".","*",")">>,
     resps |-> <<
        \* There are many times when no apology is needed.
        <<"T","h","e","r","e"," ","a","r","e"," ","m","a","n","y"," ","t","i","m","e","s"," ","w","h","e","n"," ","n","o"," ","a","p","o","l","o","g","y"," ","i","s"," ","n","e","e","d","e","d",".">>,
        \* What feelings do you have when you apologize?
        <<"W","h","a","t"," ","f","e","e","l","i","n","g","s"," ","d","o"," ","y","o","u"," ","h","a","v","e"," ","w","h","e","n"," ","y","o","u"," ","a","p","o","l","o","g","i","z","e","?">>
     >>],
    \* 54 (line 583): Hello(.*)
    [key |-> <<"H","e","l","l","o","(",".","*",")">>,
     resps |-> <<
        \* Hello, I'm glad you could drop by today.
        <<"H","e","l","l","o",","," ","I","'","m"," ","g","l","a","d"," ","y","o","u"," ","c","o","u","l","d"," ","d","r","o","p"," ","b","y"," ","t","o","d","a","y",".">>,
        \* Hi there, how are you today?
        <<"H","i"," ","t","h","e","r","e",","," ","h","o","w"," ","a","r","e"," ","y","o","u"," ","t","o","d","a","y","?">>,
        \* Hello, how are you feeling today?
        <<"H","e","l","l","o",","," ","h","o","w"," ","a","r","e"," ","y","o","u"," ","f","e","e","l","i","n","g"," ","t","o","d","a","y","?">>
     >>],
    \* 55 (line 588): I think (.*)
    [key |-> <<"I"," ","t","h","i","n","k"," ","(",".","*",")">>,
     resps |-> <<
        \* Do you doubt {0}?
        <<"D","o"," ","y","o","u"," ","d","o","u","b","t"," ","{","0","}","?">>,
        \* Do you really think so?
        <<"D","o"," ","y","o","u"," ","r","e","a","l","l","y"," ","t","h","i","n","k"," ","s","o","?">>,
        \* But you're not sure {0}?
        <<"B","u","t"," ","y","o","u","'","r","e"," ","n","o","t"," ","s","u","r","e"," ","{","0","}","?">>
     >>],
    \* 56 (line 593): (.*) friend (.*)
    [key |-> <<"(",".","*",")"," ","f","r","i","e","n","d"," ","(",".","*",")">>,
     resps |-> <<
        \* Tell me more about your friends.
        <<"T","e","l","l"," ","m","e"," ","m","o","r","e"," ","a","b","o","u","t"," ","y","o","u","r"," ","f","r","i","e","n","d","s",".">>,
        \* When you think of a friend, what comes to mind?
        <<"W","h","e","n"," ","y","o","u"," ","t","h","i","n","k"," ","o","f"," ","a"," ","f","r","i","e","n","d",","," ","w","h","a","t"," ","c","o","m","e","s"," ","t","o"," ","m","i","n","d","?">>,
        \* Why don't you tell me about a childhood friend?
        <<"W","h","y"," ","d","o","n","'","t"," ","y","o","u"," ","t","e","l","l"," ","m","e"," ","a","b","o","u","t"," ","a"," ","c","h","i","l","d","h","o","o","d"," ","f","r","i","e","n","d","?">>,
        \* How do you feel when you say that?
        <<"H","o","w"," ","d","o"," ","y","o","u"," ","f","e","e","l"," ","w","h","e","n"," ","y","o","u"," ","s","a","y"," ","t","h","a","t","?">>
     >>],
    \* 57 (line 599): Yes (.*)
    [key |-> <<"Y","e","s"," ","(",".","*",")">>,
     resps |-> <<
        \* You seem quite sure.
        <<"Y","o","u"," ","s","e","e","m"," ","q","u","i","t","e"," ","s","u","r","e",".">>,
        \* OK, but can you elaborate a bit?
        <<"O","K",","," ","b","u","t"," ","c","a","n"," ","y","o","u"," ","e","l","a","b","o","r","a","t","e"," ","a"," ","b","i","t","?">>
     >>],
    \* 58 (line 600): (.*) computer(.*)
    [key |-> <<"(",".","*",")"," ","c","o","m","p","u","t","e","r","(",".","*",")">>,
     resps |-> <<
        \* Are you really talking about me?
        <<"A","r","e"," ","y","o","u"," ","r","e","a","l","l","y"," ","t","a","l","k","i","n","g"," ","a","b","o","u","t"," ","m","e","?">>,
        \* Does it seem strange to talk to a computer?
        <<"D","o","e","s"," ","i","t"," ","s","e","e","m"," ","s","t","r","a","n","g","e"," ","t","o"," ","t","a","l","k"," ","t","o"," ","a"," ","c","o","m","p","u","t","e","r","?">>,
        \* How do computers make you feel?
        <<"H","o","w"," ","d","o"," ","c","o","m","p","u","t","e","r","s"," ","m","a","k","e"," ","y","o","u"," ","f","e","e","l","?">>,
        \* Do you feel threatened by computers?
        <<"D","o"," ","y","o","u"," ","f","e","e","l"," ","t","h","r","e","a","t","e","n","e","d"," ","b","y"," ","c","o","m","p","u","t","e","r","s","?">>
     >>],
    \* 59 (line 606): Is it (.*)
    [key |-> <<"I","s"," ","i","t"," ","(",".","*",")">>,
     resps |-> <<
        \* Do you think it is {0}?
        <<"D","o"," ","y","o","u"," ","t","h","i","n","k"," ","i","t"," ","i","s"," ","{","0","}","?">>,
        \* Perhaps it's {0} -- what do you think?
        <<"P","e","r","h","a","p","s"," ","i","t","'","s"," ","{","0","}"," ","-","-"," ","w","h","a","t"," ","d","o"," ","y","o","u"," ","t","h","i","n","k","?">>,
        \* If it were {0}, what would you do?
        <<"I","f"," ","i","t"," ","w","e","r","e"," ","{","0","}",","," ","w","h","a","t"," ","w","o","u","l","d"," ","y","o","u"," ","d","o","?">>
     >>],
    \* 60 (line 611): It is (.*)
    [key |-> <<"I","t"," ","i","s"," ","(",".","*",")">>,
     resps |-> <<
        \* You seem very certain.
        <<"Y","o","u"," ","s","e","e","m"," ","v","e","r","y"," ","c","e","r","t","a","i","n",".">>,
        \* If I told you that it probably isn't {0}, what would you feel?
        <<"I","f"," ","I"," ","t","o","l","d"," ","y","o","u"," ","t","h","a","t"," ","i","t"," ","p","r","o","b","a","b","l","y"," ","i","s","n","'","t"," ","{","0","}",","," ","w","h","a","t"," ","w","o","u","l","d"," ","y","o","u"," ","f","e","e","l","?">>
     >>],
    \* 61 (line 615): Can you (.*)
    [key |-> <<"C","a","n"," ","y","o","u"," ","(",".","*",")">>,
     resps |-> <<
        \* What makes you think I can't {0}?
        <<"W","h","a","t"," ","m","a","k","e","s"," ","y","o","u"," ","t","h","i","n","k"," ","I"," ","c","a","n","'","t"," ","{","0","}","?">>,
        \* If I could {0}, then what?
        <<"I","f"," ","I"," ","c","o","u","l","d"," ","{","0","}",","," ","t","h","e","n"," ","w","h","a","t","?">>,
        \* Why do you ask if I can {0}?
        <<"W","h","y"," ","d","o"," ","y","o","u"," ","a","s","k"," ","i","f"," ","I"," ","c","a","n"," ","{","0","}","?">>
     >>],
    \* 62 (line 620): Can I (.*)
    [key |-> <<"C","a","n"," ","I"," ","(",".","*",")">>,
     resps |-> <<
        \* Perhaps you don't want to {0}.
        <<"P","e","r","h","a","p","s"," ","y","o","u"," ","d","o","n","'","t"," ","w","a","n","t"," ","t","o"," ","{","0","}",".">>,
        \* Do you want to be able to {0}?
        <<"D","o"," ","y","o","u"," ","w","a","n","t"," ","t","o"," ","b","e"," ","a","b","l","e"," ","t","o"," ","{","0","}","?">>,
        \* If you could {0}, would you?
        <<"I","f"," ","y","o","u"," ","c","o","u","l","d"," ","{","0","}",","," ","w","o","u","l","d"," ","y","o","u","?">>
     >>],
    \* 63 (line 625): You are (.*)
    [key |-> <<"Y","o","u"," ","a","r","e"," ","(",".","*",")">>,
     resps |-> <<
        \* Why do you think I am {0}?
        <<"W","h","y"," ","d","o"," ","y","o","u"," ","t","h","i","n","k"," ","I"," ","a","m"," ","{","0","}","?">>,
        \* Does it please you to think that I'm {0}?
        <<"D","o","e","s"," ","i","t"," ","p","l","e","a","s","e"," ","y","o","u"," ","t","o"," ","t","h","i","n","k"," ","t","h","a","t"," ","I","'","m"," ","{","0","}","?">>,
        \* Perhaps you would like me to be {0}?
        <<"P","e","r","h","a","p","s"," ","y","o","u"," ","w","o","u","l","d"," ","l","i","k","e"," ","m","e"," ","t","o"," ","b","e"," ","{","0","}","?">>
     >>],
    \* 64 (line 630): You're (.*)
    [key |-> <<"Y","o","u","'","r","e"," ","(",".","*",")">>,
     resps |-> <<
        \* Why do you say I am {0}?
        <<"W","h","y"," ","d","o"," ","y","o","u"," ","s","a","y"," ","I"," ","a","m"," ","{","0","}","?">>,
        \* Why do you think I am {0}?
        <<"W","h","y"," ","d","o"," ","y","o","u"," ","t","h","i","n","k"," ","I"," ","a","m"," ","{","0","}","?">>,
        \* Are we talking about you, or me?
        <<"A","r","e"," ","w","e"," ","t","a","l","k","i","n","g"," ","a","b","o","u","t"," ","y","o","u",","," ","o","r"," ","m","e","?">>,
        \* How does that make you feel?
        <<"H","o","w"," ","d","o","e","s"," ","t","h","a","t"," ","m","a","k","e"," ","y","o","u"," ","f","e","e","l","?">>
     >>],
    \* 65 (line 636): (.*) me (.*)
    [key |-> <<"(",".","*",")"," ","m","e"," ","(",".","*",")">>,
     resps |-> <<
        \* Why do you say that {0} you?
        <<"W","h","y"," ","d","o"," ","y","o","u"," ","s","a","y"," ","t","h","a","t"," ","{","0","}"," ","y","o","u","?">>,
        \* Why do you think that {0} you?
        <<"W","h","y"," ","d","o"," ","y","o","u"," ","t","h","i","n","k"," ","t","h","a","t"," ","{","0","}"," ","y","o","u","?">>,
        \* What do you mean by {0} you?
        <<"W","h","a","t"," ","d","o"," ","y","o","u"," ","m","e","a","n"," ","b","y"," ","{","0","}"," ","y","o","u","?">>
     >>],
    \* 66 (line 641): Why (.*)
    [key |-> <<"W","h","y"," ","(",".","*",")">>,
     resps |-> <<
        \* What would you do if you had the answer to that question?
        <<"W","h","a","t"," ","w","o","u","l","d"," ","y","o","u"," ","d","o"," ","i","f"," ","y","o","u"," ","h","a","d"," ","t","h","e"," ","a","n","s","w","e","r"," ","t","o"," ","t","h","a","t"," ","q","u","e","s","t","i","o","n","?">>,
        \* I don't have all the answers, yet I wish I knew everything. Why {0}?
        <<"I"," ","d","o","n","'","t"," ","h","a","v","e"," ","a","l","l"," ","t","h","e"," ","a","n","s","w","e","r","s",","," ","y","e","t"," ","I"," ","w","i","s","h"," ","I"," ","k","n","e","w"," ","e","v","e","r","y","t","h","i","n","g","."," ","W","h","y"," ","{","0","}","?">>,
        \* I don't know, {0}?
        <<"I"," ","d","o","n","'","t"," ","k","n","o","w",","," ","{","0","}","?">>
     >>],
    \* 67 (line 646): I want (.*)
    [key |-> <<"I"," ","w","a","n","t"," ","(",".","*",")">>,
     resps |-> <<
        \* What would it mean if you got {0}?
        <<"W","h","a","t"," ","w","o","u","l","d"," ","i","t"," ","m","e","a","n"," ","i","f"," ","y","o","u"," ","g","o","t"," ","{","0","}","?">>,
        \* Why do you want {0}?
        <<"W","h","y"," ","d","o"," ","y","o","u"," ","w","a","n","t"," ","{","0","}","?">>,
        \* What would you do if you got {0}?
        <<"W","h","a","t"," ","w","o","u","l","d"," ","y","o","u"," ","d","o"," ","i","f"," ","y","o","u"," ","g","o","t"," ","{","0","}","?">>
     >>],
    \* 68 (line 651): (.*) mother(.*)
    [key |-> <<"(",".","*",")"," ","m","o","t","h","e","r","(",".","*",")">>,
     resps |-> <<
        \* Tell me more about your mother.
        <<"T","e","l","l"," ","m","e"," ","m","o","r","e"," ","a","b","o","u","t"," ","y","o","u","r"," ","m","o","t","h","e","r",".">>,
        \* What was your relationship with your mother like?
        <<"W","h","a","t"," ","w","a","s"," ","y","o","u","r"," ","r","e","l","a","t","i","o","n","s","h","i","p"," ","w","i","t","h"," ","y","o","u","r"," ","m","o","t","h","e","r"," ","l","i","k","e","?">>,
        \* How do you feel about your mother?
        <<"H","o","w"," ","d","o"," ","y","o","u"," ","f","e","e","l"," ","a","b","o","u","t"," ","y","o","u","r"," ","m","o","t","h","e","r","?">>
     >>],
    \* 69 (line 656): (.*) father(.*)
    [key |-> <<"(",".","*",")"," ","f","a","t","h","e","r","(",".","*",")">>,
     resps |-> <<
        \* Tell me more about your father.
        <<"T","e","l","l"," ","m","e"," ","m","o","r","e"," ","a","b","o","u","t"," ","y","o","u","r"," ","f","a","t","h","e","r",".">>,
        \* How did your father make you feel?
        <<"H","o","w"," ","d","i","d"," ","y","o","u","r"," ","f","a","t","h","e","r"," ","m","a","k","e"," ","y","o","u"," ","f","e","e","l","?">>,
        \* How do you feel about your father?
        <<"H","o","w"," ","d","o"," ","y","o","u"," ","f","e","e","l"," ","a","b","o","u","t"," ","y","o","u","r"," ","f","a","t","h","e","r","?">>
     >>],
    \* 70 (line 661): (.*) child(.*)
    [key |-> <<"(",".","*",")"," ","c","h","i","l","d","(",".","*",")">>,
     resps |-> <<
        \* Did you have close friends as a child?
        <<"D","i","d"," ","y","o","u"," ","h","a","v","e"," ","c","l","o","s","e"," ","f","r","i","e","n","d","s"," ","a","s"," ","a"," ","c","h","i","l","d","?">>,
        \* What is your favorite childhood memory?
        <<"W","h","a","t"," ","i","s"," ","y","o","u","r"," ","f","a","v","o","r","i","t","e"," ","c","h","i","l","d","h","o","o","d"," ","m","e","m","o","r","y","?">>,
        \* Please tell me more.
        <<"P","l","e","a","s","e"," ","t","e","l","l"," ","m","e"," ","m","o","r","e",".">>,
        \* Can you elaborate on that?
        <<"C","a","n"," ","y","o","u"," ","e","l","a","b","o","r","a","t","e"," ","o","n"," ","t","h","a","t","?">>,
        \* Do you remember any dreams or nightmares from childhood?
        <<"D","o"," ","y","o","u"," ","r","e","m","e","m","b","e","r"," ","a","n","y"," ","d","r","e","a","m","s"," ","o","r"," ","n","i","g","h","t","m","a","r","e","s"," ","f","r","o","m"," ","c","h","i","l","d","h","o","o","d","?">>
     >>],
    \* 71 (line 668): I feel (.*)
    [key |-> <<"I"," ","f","e","e","l"," ","(",".","*",")">>,
     resps |-> <<
        \* Why do you feel {0}?
        <<"W","h","y"," ","d","o"," ","y","o","u"," ","f","e","e","l"," ","{","0","}","?">>,
        \* What makes you feel {0}?
        <<"W","h","a","t"," ","m","a","k","e","s"," ","y","o","u"," ","f","e","e","l"," ","{","0","}","?">>,
        \* How long have you felt {0}?
        <<"H","o","w"," ","l","o","n","g"," ","h","a","v","e"," ","y","o","u"," ","f","e","l","t"," ","{","0","}","?">>
     >>],
    \* 72 (line 673): It seems (.*)
    [key |-> <<"I","t"," ","s","e","e","m","s"," ","(",".","*",")">>,
     resps |-> <<
        \* Why does it seem {0}?
        <<"W","h","y"," ","d","o","e","s"," ","i","t"," ","s","e","e","m"," ","{","0","}","?">>,
        \* What makes it seem {0}?
        <<"W","h","a","t"," ","m","a","k","e","s"," ","i","t"," ","s","e","e","m"," ","{","0","}","?">>,
        \* How does it affect you that it seems {0}?
        <<"H","o","w"," ","d","o","e","s"," ","i","t"," ","a","f","f","e","c","t"," ","y","o","u"," ","t","h","a","t"," ","i","t"," ","s","e","e","m","s"," ","{","0","}","?">>
     >>],
    \* 73 (line 678): Sometimes (.*)
    [key |-> <<"S","o","m","e","t","i","m","e","s"," ","(",".","*",")">>,
     resps |-> <<
        \* Can you tell me more about those times?
        <<"C","a","n"," ","y","o","u"," ","t","e","l","l"," ","m","e"," ","m","o","r","e"," ","a","b","o","u","t"," ","t","h","o","s","e"," ","t","i","m","e","s","?">>,
        \* Why sometimes and not always?
        <<"W","h","y"," ","s","o","m","e","t","i","m","e","s"," ","a","n","d"," ","n","o","t"," ","a","l","w","a","y","s","?">>,
        \* What happens when {0}?
        <<"W","h","a","t"," ","h","a","p","p","e","n","s"," ","w","h","e","n"," ","{","0","}","?">>
     >>],
    \* 74 (line 683): If only (.*)
    [key |-> <<"I","f"," ","o","n","l","y"," ","(",".","*",")">>,
     resps |-> <<
        \* What do you think would change if {0}?
        <<"W","h","a","t"," ","d","o"," ","y","o","u"," ","t","h","i","n","k"," ","w","o","u","l","d"," ","c","h","a","n","g","e"," ","i","f"," ","{","0","}","?">>,
        \* Why do you say 'if only {0}'?
        <<"W","h","y"," ","d","o"," ","y","o","u"," ","s","a","y"," ","'","i","f"," ","o","n","l","y"," ","{","0","}","'","?">>,
        \* What stops you from making {0} happen?
        <<"W","h","a","t"," ","s","t","o","p","s"," ","y","o","u"," ","f","r","o","m"," ","m","a","k","i","n","g"," ","{","0","}"," ","h","a","p","p","e","n","?">>
     >>],
    \* 75 (line 688): I regret (.*)
    [key |-> <<"I"," ","r","e","g","r","e","t"," ","(",".","*",")">>,
     resps |-> <<
        \* Why do you regret {0}?
        <<"W","h","y"," ","d","o"," ","y","o","u"," ","r","e","g","r","e","t"," ","{","0","}","?">>,
        \* What could you do differently now?
        <<"W","h","a","t"," ","c","o","u","l","d"," ","y","o","u"," ","d","o"," ","d","i","f","f","e","r","e","n","t","l","y"," ","n","o","w","?">>,
        \* How does regretting {0} affect you?
        <<"H","o","w"," ","d","o","e","s"," ","r","e","g","r","e","t","t","i","n","g"," ","{","0","}"," ","a","f","f","e","c","t"," ","y","o","u","?">>
     >>],
    \* 76 (line 693): I hope (.*)
    [key |-> <<"I"," ","h","o","p","e"," ","(",".","*",")">>,
     resps |-> <<
        \* Why do you hope {0}?
        <<"W","h","y"," ","d","o"," ","y","o","u"," ","h","o","p","e"," ","{","0","}","?">>,
        \* What makes you hope {0}?
        <<"W","h","a","t"," ","m","a","k","e","s"," ","y","o","u"," ","h","o","p","e"," ","{","0","}","?">>,
        \* How would you feel if {0}?
        <<"H","o","w"," ","w","o","u","l","d"," ","y","o","u"," ","f","e","e","l"," ","i","f"," ","{","0","}","?">>
     >>],
    \* 77 (line 698): I wish (.*)
    [key |-> <<"I"," ","w","i","s","h"," ","(",".","*",")">>,
     resps |-> <<
        \* Why do you wish {0}?
        <<"W","h","y"," ","d","o"," ","y","o","u"," ","w","i","s","h"," ","{","0","}","?">>,
        \* What makes you wish {0}?
        <<"W","h","a","t"," ","m","a","k","e","s"," ","y","o","u"," ","w","i","s","h"," ","{","0","}","?">>,
        \* What would you do if {0}?
        <<"W","h","a","t"," ","w","o","u","l","d"," ","y","o","u"," ","d","o"," ","i","f"," ","{","0","}","?">>
     >>],
    \* 78 (line 703): I miss (.*)
    [key |-> <<"I"," ","m","i","s","s"," ","(",".","*",")">>,
     resps |-> <<
        \* Why do you miss {0}?
        <<"W","h","y"," ","d","o"," ","y","o","u"," ","m","i","s","s"," ","{","0","}","?">>,
        \* What do you miss most about {0}?
        <<"W","h","a","t"," ","d","o"," ","y","o","u"," ","m","i","s","s"," ","m","o","s","t"," ","a","b","o","u","t"," ","{","0","}","?">>,
        \* How often do you think about {0}?
        <<"H","o","w"," ","o","f","t","e","n"," ","d","o"," ","y","o","u"," ","t","h","i","n","k"," ","a","b","o","u","t"," ","{","0","}","?">>
     >>],
    \* 79 (line 708): default
    [key |-> <<"d","e","f","a","u","l","t">>,
     resps |-> <<
        \* Why do you say {0}?
        <<"W","h","y"," ","d","o"," ","y","o","u"," ","s","a","y"," ","{","0","}","?">>,
        \* {0}?
        <<"{","0","}","?">>
     >>]
>>

\* a table in which a key written again would keep its first value
dict_literal_first_value(entries) ==
    LET same(i) == {j \in 1..Len(entries) : entries[j].key = entries[i].key}
        firsts == {i \in 1..Len(entries) : i = Min(same(i))}
        nth(n) == CHOOSE i \in firsts : Cardinality({j \in firsts : j <= i}) = n
    IN  [n \in 1..Cardinality(firsts) |->
            [key |-> entries[nth(n)].key, resps |-> entries[nth(n)].resps]]

\* a dict literal keeps one entry per key: a key written again keeps its
\* first position and takes the later value
dict_literal(entries) ==
    LET same(i) == {j \in 1..Len(entries) : entries[j].key = entries[i].key}
        firsts == {i \in 1..Len(entries) : i = Min(same(i))}
        nth(n) == CHOOSE i \in firsts : Cardinality({j \in firsts : j <= i}) = n
    IN  [n \in 1..Cardinality(firsts) |->
            [key |-> entries[nth(n)].key, resps |-> entries[Max(same(nth(n)))].resps]]

\* the dict `responses` as responses.items() walks it
responses == <<>> \o dict_literal(declared)

default_key == <<"d","e","f","a","u","l","t">>

\* responses["default"]
responses_default == responses[CHOOSE i \in 1..Len(responses) : responses[i].key = default_key].resps

\* I'm not sure I understand. Can you elaborate?
apology ==
    <<"I","'","m"," ","n","o","t"," ","s","u","r","e"," ","I"," ","u","n","d","e","r","s","t",
      "a","n","d","."," ","C","a","n"," ","y","o","u"," ","e","l","a","b","o","r","a","t","e",
      "?">>

----------------------------------------------------------------------------
(* The regular expressions of the rule table: literal characters, an       *)
(* escaped question mark and the greedy any-text group.                    *)

DotStar == [group |-> TRUE, ch |-> ""]

\* the literal part of a pattern: one element for each character, a
\* backslash giving the character after it (the keys escape single
\* characters only)
literal(p) ==
    LET kept == {q \in 1..Len(p) : \/ p[q] # "\\"
                                    \/ q = Len(p)
                                    \/ (q > 1 /\ p[q - 1] = "\\")}
        nth(n) == CHOOSE q \in kept : Cardinality({r \in kept : r <= q}) = n
    IN  [n \in 1..Cardinality(kept) |-> [group |-> FALSE, ch |-> p[nth(n)]]]

\* re.compile on the pattern syntax the table uses: literal parts around
\* the groups
RECURSIVE re_compile(_)
re_compile(p) ==
    LET groups == {q \in 1..Len(p) : HasAt(p, q, <<"(",".","*",")">>)}
    IN  IF groups = {} THEN <<>> \o literal(p)
        ELSE literal(SubSeq(p, 1, Min(groups) - 1)) \o <<DotStar>>
                 \o re_compile(From(p, Min(groups) + 4))

NoMatch == [matched |-> FALSE, groups |-> <<>>]

\* "." does not match a newline: the last position a group starting at p can reach
DotEnd(s, p) == Min({q \in p..(Len(s) + 1) : q = Len(s) + 1 \/ s[q] = "\n"}) - 1

\* the regex from element i on matched against s from position p on,
\* ignoring case; a group takes the longest text that lets the rest match
RECURSIVE match_from(_, _, _, _)
match_from(regex, i, s, p) ==
    IF i > Len(regex) THEN [matched |-> TRUE, groups |-> <<>>]
    ELSE IF regex[i].group
    THEN LET ends == {e \in (p - 1)..DotEnd(s, p) : match_from(regex, i + 1, s, e + 1).matched}
         IN  IF ends = {} THEN NoMatch
             ELSE LET e == Max(ends)
                  IN  [matched |-> TRUE,
                       groups |-> <<SubSeq(s, p, e)>> \o match_from(regex, i + 1, s, e + 1).groups]
    ELSE LET \* the literal characters up to the next group, taken in one step
             j == Min({k \in (i + 1)..(Len(regex) + 1) : k = Len(regex) + 1 \/ regex[k].group})
             n == j - i
         IN  IF /\ p + n - 1 <= Len(s)
                /\ \A d \in 0..(n - 1) : lower_char(s[p + d]) = lower_char(regex[i + d].ch)
             THEN match_from(regex, j, s, p + n)
             ELSE NoMatch

\* re.match(pattern, string, re.IGNORECASE): anchored at the start only
re_match(regex, string) == match_from(regex, 1, string, 1)

\* the compiled patterns of the keys of `responses` ("default" included)
compiled == <<>> \o [i \in 1..Len(responses) |-> re_compile(responses[i].key)]

\* resp.format(a): "{0}" is replaced by a
RECURSIVE format(_, _)
format(resp, a) ==
    LET fields == {p \in 1..Len(resp) : HasAt(resp, p, <<"{","0","}">>)}
    IN  IF fields = {} THEN resp
        ELSE LET p == Min(fields)
             IN  SubSeq(resp, 1, p - 1) \o a \o format(From(resp, p + 3), a)

----------------------------------------------------------------------------
(* get_response: the dispatcher                                             *)

\* the list of line 721 without its second pattern
i_am_pattern_only == { <<"I"," ","a","m"," ","(",".","*",")">> }

i_am_patterns == { <<"I"," ","a","m"," ","(",".","*",")">>, <<"I","'","m"," ","(",".","*",")">> }
I_am == <<"I"," ","a","m"," ">>

\* the loop going on after a match, so that the last matching entry answers
loop_items_last(line, lo, hi) ==
    LET matching == {k \in lo..hi : re_match(compiled[k], line).matched}
    IN  IF matching = {} THEN 0 ELSE Max(matching)

\* the for loop over responses.items() on the entries lo..hi: the index of
\* the first entry whose key matches line, 0 when the loop ends without one.
\* The loop returns at the first match, and re.match has no effect, so the
\* entry that answers is the least of those that match.
loop_items(line, lo, hi) ==
    LET matching == {k \in lo..hi : re_match(compiled[k], line).matched}
    IN  IF matching = {} THEN 0 ELSE Min(matching)

first_match(line) == loop_items(line, 1, Len(responses))

\* re.match(r"^I am|^I'm", line, re.IGNORECASE)
starts_i_am(line) ==
    \/ HasAtIgnoreCase(line, 1, <<"I"," ","a","m">>)
    \/ HasAtIgnoreCase(line, 1, <<"I","'","m">>)

\* whether match.group(1) raises IndexError for entry i
no_group(i, line) == Len(re_match(compiled[i], line).groups) < 1

\* whether this call reaches a call of handle_grammar
calls_grammar(i, line) ==
    IF i = 0 THEN starts_i_am(line)
    ELSE ~no_group(i, line) /\ responses[i].key \in i_am_patterns

\* the text handed to handle_grammar, when it is called
grammar_input(i, line) ==
    IF i = 0 THEN transform_pronouns(line)
    ELSE Only({I_am \o transform_pronouns(group) :
                  group \in {re_match(compiled[i], line).groups[1]}})

\* a dispatcher that would put the user's name, its second parameter, into
\* the template
fragment_of_name(i, line, tg) == user_name

\* lines 719-725 and 729-735: the fragment that is put into the template
fragment(i, line, tg) ==
    LET transformed_input ==
            IF calls_grammar(i, line)
            THEN Only({handle_grammar(g, tg) : g \in {grammar_input(i, line)}})
            ELSE IF i = 0 THEN transform_pronouns(line)
            ELSE Only({transform_pronouns(group) :
                          group \in {re_match(compiled[i], line).groups[1]}})
    IN  Only({Only({simplify_response(normalised, tg) :
                       normalised \in {handle_contractions(t)}}) :
                 t \in {transformed_input}})

\* the choice always drawn from responses["default"]
choices_default(i) == responses_default

\* the templates random.choice draws from
choices(i) == IF i = 0 THEN responses_default ELSE responses[i].resps

\* get_response with the except clause going on with an empty fragment
get_response_empty_fragment(line, i, resp, tg) ==
    IF i # 0 /\ no_group(i, line) THEN format(resp, <<>>)
    ELSE format(resp, fragment(i, line, tg))

\* get_response when entry i is the first match (0: none), random.choice
\* draws resp and the tagger answers tg
get_response(line, i, resp, tg) ==
    IF i # 0 /\ no_group(i, line) THEN apology
    ELSE Only({format(resp, simplified_input) : simplified_input \in {fragment(i, line, tg)}})

----------------------------------------------------------------------------
(* Values of the variables a specification does not use.                    *)

Nothing == <<>>
NoPrint == <<>>
NoTagger == [nouns |-> {}, tag |-> <<>>]

----------------------------------------------------------------------------
(* eliza_chat: the conversation loop                                        *)

\* -> [eliza] 
eliza_prefix ==
    <<"-",">"," ","[","e","l","i","z","a","]"," ">>

\* -> [eliza] Hi, I'm a psychotherapist. Why don't we start by telling me your name?
greeting ==
    <<"-",">"," ","[","e","l","i","z","a","]"," ","H","i",","," ","I","'","m"," ","a"," ","p",
      "s","y","c","h","o","t","h","e","r","a","p","i","s","t","."," ","W","h","y"," ","d","o",
      "n","'","t"," ","w","e"," ","s","t","a","r","t"," ","b","y"," ","t","e","l","l","i","n",
      "g"," ","m","e"," ","y","o","u","r"," ","n","a","m","e","?">>

\* the f-string of line 60, before and after {user_name}
hi_before ==
    <<"-",">"," ","[","e","l","i","z","a","]"," ","H","i"," ">>

\* (line 60, continued)
hi_after ==
    <<"."," ","H","o","w"," ","c","a","n"," ","I"," ","h","e","l","p"," ","y","o","u"," ","t",
      "o","d","a","y","?"," ","F","e","e","l"," ","f","r","e","e"," ","t","o"," ","t","e","l",
      "l"," ","m","e"," ","a","n","y","t","h","i","n","g",","," ","t","h","e","s","e"," ","s",
      "e","s","s","i","o","n","s"," ","a","r","e"," ","c","o","m","p","l","e","t","e","l","y",
      " ","c","o","n","f","i","d","e","n","t","i","a","l",".">>

\* quit
quit_word ==
    <<"q","u","i","t">>

\* Thank you for talking with me.
farewell_1 ==
    <<"T","h","a","n","k"," ","y","o","u"," ","f","o","r"," ","t","a","l","k","i","n","g"," ",
      "w","i","t","h"," ","m","e",".">>

\* Good-bye, for now.
farewell_2 ==
    <<"G","o","o","d","-","b","y","e",","," ","f","o","r"," ","n","o","w",".">>

\* Thank you, that will be $150. Have a good day!
farewell_3 ==
    <<"T","h","a","n","k"," ","y","o","u",","," ","t","h","a","t"," ","w","i","l","l"," ","b",
      "e"," ","$","1","5","0","."," ","H","a","v","e"," ","a"," ","g","o","o","d"," ","d","a",
      "y","!">>

\* -> [eliza] I'm sorry, I didn't catch that. Can you please elaborate?
sorry ==
    <<"-",">"," ","[","e","l","i","z","a","]"," ","I","'","m"," ","s","o","r","r","y",","," ",
      "I"," ","d","i","d","n","'","t"," ","c","a","t","c","h"," ","t","h","a","t","."," ","C",
      "a","n"," ","y","o","u"," ","p","l","e","a","s","e"," ","e","l","a","b","o","r","a","t",
      "e","?">>

\* the f-string of line 749, before and after {user_name}
prompt_before == <<"=",">"," ","[">>
prompt_after == <<"]"," ">>

quit_responses == <<farewell_1, farewell_2, farewell_3>>

\* the elements of a list
Range(f) == {f[i] : i \in DOMAIN f}

\* what the user may type at a prompt: pieces separated by single spaces
\* (the empty piece gives leading, trailing and doubled spaces)
ChatPieces ==
    { <<>>, <<"I"," ","a","m">>, <<"I","'","m">>, <<"t","i","r","e","d">>,
      <<"p","r","o","b","l","e","m","?">>, <<"d","e","f","a","u","l","t">>,
      <<"P","e","o","p","l","e">>, <<"y","o","u">>, <<"Q","u","i","t">>,
      <<"I"," ","w","a","n","t">> }

Lines == {join(<<" ">>, ps) : ps \in SeqUpTo(ChatPieces, MaxPieces)}

Names == { <<"S","o","p","h","i","a">>, <<" ","A","l"," ">>, <<"q","u","i","t">> }

\* tokens the tagger may call a noun when it tags them on their own
ChatNouns == { <<"t","i","r","e","d">> }

\* one tag for each row of the table of handle_grammar
ChatTags == { <<"J","J">>, <<"V","B","G">>, <<"V","B","D">>, <<"N","N">>, <<"N","N","S">>,
              <<"T","O">>, <<"C","C">>, <<"M","D">> }

\* the tags the tagger may answer for the word after "I am": handle_grammar
\* reads a tag only when its text starts with these tokens and goes on
tags_asked(text) ==
    LET tokens == word_tokenize(text)
    IN  IF Len(tokens) > 2 /\ starts_with_i_am(pos_tag(tokens, NoTagger))
        THEN ChatTags ELSE {NoTag}

Init ==
    /\ pc = "start"
    /\ user_name = Nothing /\ user_input = Nothing /\ printed = <<>>
    /\ pattern = Nothing /\ adapted = FALSE /\ tagger = NoTagger
    /\ arg = Nothing /\ ret = Nothing /\ ret2 = Nothing

\* greet_user(): two lines are printed around the input of the name
greet_user ==
    /\ pc = "start"
    /\ \E name \in Names :
          /\ user_name' = strip(name)
          /\ printed' = <<greeting, hi_before \o strip(name) \o hi_after>>
    /\ pc' = "greeted"
    /\ UNCHANGED <<user_input, pattern, adapted, tagger, arg, ret, ret2>>

\* line 749: the loop is entered again and input() writes its prompt.  The
\* line of the previous turn and what was computed for it are dead.
Prompt ==
    /\ pc \in {"greeted", "answered", "reprompted"}
    /\ printed' = <<prompt_before \o user_name \o prompt_after>>
    /\ user_input' = Nothing
    /\ pattern' = Nothing /\ adapted' = FALSE /\ tagger' = NoTagger
    /\ pc' = "waiting"
    /\ UNCHANGED <<user_name, arg, ret, ret2>>

\* line 749: input() returns the line the user typed, which is stripped
ReadLine ==
    /\ pc = "waiting"
    /\ \E line \in Lines : user_input' = strip(line)
    /\ pc' = "read"
    /\ UNCHANGED <<user_name, printed, pattern, adapted, tagger, arg, ret, ret2>>

\* a loop that would also stop at a line that only begins with "quit"
Quit_on_prefix ==
    /\ pc = "read"
    /\ HasAt(lower(user_input), 1, quit_word)
    /\ \E farewell \in Range(quit_responses) : printed' = <<eliza_prefix \o farewell>>
    /\ pc' = "done"
    /\ UNCHANGED <<user_name, user_input, pattern, adapted, tagger, arg, ret, ret2>>

\* lines 750-757: the line is "quit": a farewell is printed, break
Quit ==
    /\ pc = "read"
    /\ lower(user_input) = quit_word
    /\ \E farewell \in Range(quit_responses) : printed' = <<eliza_prefix \o farewell>>
    /\ pc' = "done"
    /\ UNCHANGED <<user_name, user_input, pattern, adapted, tagger, arg, ret, ret2>>

\* a loop that would stop at an empty line instead of reading the next one
Reprompt_ends ==
    /\ pc = "read"
    /\ lower(user_input) # quit_word
    /\ user_input = <<>>
    /\ printed' = <<sorry>>
    /\ pc' = "done"
    /\ UNCHANGED <<user_name, user_input, pattern, adapted, tagger, arg, ret, ret2>>

\* lines 758-762: the line is empty: continue
Reprompt ==
    /\ pc = "read"
    /\ lower(user_input) # quit_word
    /\ user_input = <<>>
    /\ printed' = <<sorry>>
    /\ pc' = "reprompted"
    /\ UNCHANGED <<user_name, user_input, pattern, adapted, tagger, arg, ret, ret2>>

\* lines 763-764: any other line: get_response is called and its result
\* printed
Respond ==
    /\ pc = "read"
    /\ lower(user_input) # quit_word
    /\ user_input # <<>>
    /\ \E i \in {first_match(user_input)} :
          /\ \E resp \in Range(choices(i)) :
             \E nouns \in SUBSET ChatNouns :
             \E tag \in (IF calls_grammar(i, user_input)
                         THEN tags_asked(grammar_input(i, user_input)) ELSE {NoTag}) :
                LET tg == [nouns |-> nouns, tag |-> tag]
                IN  /\ printed' = <<eliza_prefix \o get_response(user_input, i, resp, tg)>>
                    /\ tagger' = tg
          /\ pattern' = IF i = 0 THEN Nothing ELSE responses[i].key
          /\ adapted' = calls_grammar(i, user_input)
    /\ pc' = "answered"
    /\ UNCHANGED <<user_name, user_input, arg, ret, ret2>>

Next == greet_user \/ Prompt \/ ReadLine \/ Quit \/ Reprompt \/ Respond

Spec == Init /\ [][Next]_vars

----------------------------------------------------------------------------
(* Properties of the conversation (specification Spec).  In a state with   *)
(* pc = "answered", user_input is the utterance, tagger the answers the    *)
(* tagger gave and printed[1] the line that was printed for the response.  *)

\* the response get_response returned in this turn
Response == From(printed[1], Len(eliza_prefix) + 1)

\* the entries of the table that carry a pattern: all but the fallback entry
PatternRules == {k \in 1..Len(responses) : responses[k].key # <<"d","e","f","a","u","l","t">>}

\* the patterns of the table, compiled
Regexes == <<>> \o [k \in 1..Len(responses) |-> re_compile(responses[k].key)]

\* the pattern of entry k matches the utterance u
Matches(k, u) == re_match(Regexes[k], u).matched

\* the pattern rules whose pattern matches u
Matching(u) == {k \in PatternRules : Matches(k, u)}

\* the text the first group of rule k captures in u
Captured(k, u) == re_match(Regexes[k], u).groups[1]

\* the entry of the table with key p
RuleOf(p) == CHOOSE k \in 1..Len(responses) : responses[k].key = p

\* the processed fragment of rule k for u: transform, adapter for the two
\* first-person rules, normalise, simplify
Processed(k, u, tg) ==
    Only({Only({Only({Only({simplify_response(n, tg) : n \in {handle_contractions(a)}}) :
                         a \in {IF responses[k].key \in {<<"I"," ","a","m"," ","(",".","*",")">>, <<"I","'","m"," ","(",".","*",")">>}
                                THEN handle_grammar(<<"I"," ","a","m"," ">> \o t, tg) ELSE t}}) :
                   t \in {transform_pronouns(group)}}) :
             group \in {Captured(k, u)}})

\* the responses rule k can give for u: its templates, filled
Filled(k, u, tg) == {format(t, Processed(k, u, tg)) : t \in Range(responses[k].resps)}

\* C1: the response comes from the earliest rule of the table whose pattern
\* matches the utterance, and is no template of a later matching rule
\* (other than one the earliest rule has too).
C1_FirstMatchWins ==
    pc = "answered" =>
        \A M \in {Matching(user_input)} :
           M # {} =>
              \A first \in {Min(M)} :
                 /\ pattern = responses[first].key
                 /\ Response \in Filled(first, user_input, tagger)
                 /\ \A m \in M \ {first} :
                    \A t \in Range(responses[m].resps) \ Range(responses[first].resps) :
                       Response # format(t, Processed(m, user_input, tagger))

\* "tired problem?" matches the question rule and the later problem rule,
\* and is answered by the question rule
C1_Witness ==
    /\ pc = "answered"
    /\ user_input = <<"t","i","r","e","d"," ","p","r","o","b","l","e","m","?">>
    /\ {RuleOf(<<"(",".","*",")","\\","?">>), RuleOf(<<"(",".","*",")"," ","p","r","o","b","l","e","m","(",".","*",")">>)} \subseteq Matching(user_input)
    /\ pattern = <<"(",".","*",")","\\","?">>
    /\ Response = <<"W","h","y"," ","d","o"," ","y","o","u"," ","a","s","k"," ","t","h","a","t","?">>

\* C2: for an utterance that matches a pattern, the response is a template of
\* the matched rule with {0} replaced by the processed fragment (verbatim
\* without {0}), and not a template that only rules with a pattern that does
\* not match have.
C2_TemplateOfMatchedRule ==
    pc = "answered" =>
        \A M \in {Matching(user_input)} :
           M # {} =>
              /\ pattern # Nothing
              /\ RuleOf(pattern) \in M
              /\ \A fragment_k \in {Processed(RuleOf(pattern), user_input, tagger)} :
                 \A of_matching \in {UNION {Range(responses[k].resps) : k \in M}} :
                    /\ \E t \in Range(responses[RuleOf(pattern)].resps) :
                          Response = format(t, fragment_k)
                    /\ \A m \in PatternRules \ M :
                       \A t \in Range(responses[m].resps) \ of_matching :
                          Response # format(t, fragment_k)

\* "People you" is answered with a template of the People rule around "I"
C2_Witness ==
    /\ pc = "answered"
    /\ user_input = <<"P","e","o","p","l","e"," ","y","o","u">>
    /\ pattern = <<"P","e","o","p","l","e"," ","(",".","*",")">>
    /\ Response = <<"W","h","a","t"," ","k","i","n","d"," ","o","f"," ","p","e","o","p","l","e"," ","I","?">>

\* C3: an utterance that matches no pattern rule, also one that begins with
\* the text "default", is answered with a default template around
\* simplify(normalise(transform(utterance))).
C3_DefaultByFallbackOnly ==
    (pc = "answered" /\ Matching(user_input) = {}) =>
        \A t_u \in {transform_pronouns(user_input)} :
        \A normalised \in {handle_contractions(t_u)} :
        \A x \in {simplify_response(normalised, tagger)} :
           \E t \in {<<"W","h","y"," ","d","o"," ","y","o","u"," ","s","a","y"," ","{","0","}","?">>, <<"{","0","}","?">>} :
              Response = format(t, x)

\* C4: the turn ends with a response, which is a string; it is the fixed
\* message when the matched pattern has no group to extract.
C4_NeverRaises ==
    pc = "answered" =>
        /\ Len(printed) = 1
        /\ \A j \in 1..Len(Response) : Response[j] \in STRING
        /\ (pattern # Nothing /\ \A j \in 1..Len(pattern) : pattern[j] # "(")
              => Response = <<"I","'","m"," ","n","o","t"," ","s","u","r","e"," ","I"," ","u","n","d","e","r","s","t","a","n","d","."," ","C","a","n"," ","y","o","u"," ","e","l","a","b","o","r","a","t","e","?">>

\* "default you" matches the entry without a group and gets the fixed message
C4_Witness ==
    /\ pc = "answered"
    /\ user_input = <<"d","e","f","a","u","l","t"," ","y","o","u">>
    /\ pattern = <<"d","e","f","a","u","l","t">>
    /\ Response = <<"I","'","m"," ","n","o","t"," ","s","u","r","e"," ","I"," ","u","n","d","e","r","s","t","a","n","d","."," ","C","a","n"," ","y","o","u"," ","e","l","a","b","o","r","a","t","e","?">>

\* the raw utterance begins with "I am" or "I'm", in any case
BeginsIAm(u) ==
    \/ HasAt(lower(u), 1, <<"i"," ","a","m">>)
    \/ HasAt(lower(u), 1, <<"i","'","m">>)

\* C5: handle_grammar is called exactly when the matched rule is one of the
\* two first-person rules, or no rule matched and the utterance begins with
\* "I am" or "I'm"; the fragment is simplify(normalise(x)) where x is the
\* transformed first group for any other rule, handle_grammar of "I am " and
\* the transformed group for those two, and the (adapted) transformed
\* utterance in the fallback.
C5_AdapterOnlyForFirstPerson ==
    pc = "answered" =>
        LET u == user_input
            first_person == pattern \in {<<"I"," ","a","m"," ","(",".","*",")">>, <<"I","'","m"," ","(",".","*",")">>}
            fallback == pattern = Nothing
            transformed == Only({transform_pronouns(text) :
                                    text \in {IF fallback THEN u ELSE Captured(RuleOf(pattern), u)}})
            x == Only({IF fallback
                       THEN IF BeginsIAm(u) THEN handle_grammar(t, tagger) ELSE t
                       ELSE IF first_person
                       THEN handle_grammar(<<"I"," ","a","m"," ">> \o t, tagger)
                       ELSE t : t \in {transformed}})
            templates == IF fallback THEN {<<"W","h","y"," ","d","o"," ","y","o","u"," ","s","a","y"," ","{","0","}","?">>, <<"{","0","}","?">>}
                         ELSE Range(responses[RuleOf(pattern)].resps)
        IN  /\ adapted <=> (first_person \/ (fallback /\ BeginsIAm(u)))
            /\ pattern # <<"d","e","f","a","u","l","t">> =>
                  \A normalised \in {Only({handle_contractions(a) : a \in {x}})} :
                  \A simplified \in {simplify_response(normalised, tagger)} :
                     \E t \in templates : Response = format(t, simplified)

\* "I'm tired" with tired tagged JJ: the adapter gives "feeling tired"
C5_Witness ==
    /\ pc = "answered"
    /\ user_input = <<"I","'","m"," ","t","i","r","e","d">>
    /\ pattern = <<"I","'","m"," ","(",".","*",")">>
    /\ adapted
    /\ tagger.tag = <<"J","J">>
    /\ Response = <<"D","o"," ","y","o","u"," ","e","n","j","o","y"," ","f","e","e","l","i","n","g"," ","t","i","r","e","d","?">>

\* C11: a line that is "quit" in any case ends the session: one of the three
\* farewells is printed, get_response is not called for the line, and no step
\* follows; no other line and no name ends the session.
C11_QuitEndsSession ==
    [][ /\ (pc = "read" /\ lower(user_input) = <<"q","u","i","t">>) =>
              /\ pc' = "done"
              /\ \E farewell \in {farewell_1, farewell_2, farewell_3} :
                    printed' = <<eliza_prefix \o farewell>>
              /\ UNCHANGED <<user_input, pattern, adapted, tagger>>
        /\ pc' = "done" => (pc = "read" /\ lower(user_input) = <<"q","u","i","t">>)
        /\ pc # "done"
      ]_vars

\* the session of a user named "quit" has ended on the line "Quit" with the
\* second farewell, and nothing was computed for that line
C11_Witness ==
    /\ pc = "done"
    /\ user_name = <<"q","u","i","t">>
    /\ user_input = <<"Q","u","i","t">>
    /\ printed = <<eliza_prefix \o farewell_2>>
    /\ pattern = Nothing /\ ~adapted /\ tagger = NoTagger

\* C12: an empty line gets only the fixed request to elaborate and the loop
\* prompts again; get_response is called, and its response printed, in one
\* step for exactly the lines that are neither empty nor "quit", and the
\* step after it is the next prompt.
C12_DispatcherOncePerLine ==
    [][ /\ (pc = "read" /\ user_input = <<>>) =>
              /\ pc' = "reprompted"
              /\ printed' = <<sorry>>
              /\ UNCHANGED <<user_input, pattern, adapted, tagger>>
        /\ pc = "reprompted" => pc' = "waiting"
        /\ pc' = "answered" <=>
              (pc = "read" /\ user_input # <<>> /\ lower(user_input) # <<"q","u","i","t">>)
        /\ pc' = "answered" =>
              /\ user_input' = user_input
              /\ Len(printed') = 1
              /\ HasAt(printed'[1], 1, eliza_prefix)
        /\ pc = "answered" =>
              /\ pc' = "waiting"
              /\ printed' = <<prompt_before \o user_name \o prompt_after>>
      ]_vars

\* a line of spaces was read: the request to elaborate is all that is printed
C12_Witness ==
    /\ pc = "reprompted"
    /\ user_input = <<>>
    /\ printed = <<sorry>>
    /\ pattern = Nothing /\ ~adapted /\ tagger = NoTagger

\* the answers the tagger may give in a turn
TaggerAnswers == [nouns : SUBSET ChatNouns, tag : ChatTags \cup {NoTag}]

\* the first entry of the table whose pattern matches u, 0 when there is none
FirstHit(u) ==
    LET hit == {k \in 1..Len(responses) : Matches(k, u)}
    IN  IF hit = {} THEN 0 ELSE Min(hit)

\* the fragment for the utterance u, whose first matching entry is k (0:
\* none), when the tagger answers tg, computed from u and the tables alone
FragmentOf(u, k, tg) ==
    IF k # 0 THEN Processed(k, u, tg)
    ELSE Only({Only({Only({simplify_response(n, tg) : n \in {handle_contractions(x)}}) :
                        x \in {IF BeginsIAm(u) THEN handle_grammar(t_u, tg) ELSE t_u}}) :
                  t_u \in {transform_pronouns(u)}})

\* the templates of entry k, the default templates when no entry matches
TemplatesOf(k) ==
    IF k = 0 THEN {<<"W","h","y"," ","d","o"," ","y","o","u"," ","s","a","y"," ","{","0","}","?">>, <<"{","0","}","?">>}
    ELSE Range(responses[k].resps)

ShadowedTemplates ==
    { <<"H","o","w"," ","w","o","u","l","d"," ","i","t"," ","f","e","e","l"," ","i","f"," ","y","o","u"," ","g","o","t"," ","{","0","}","?">>,
      <<"I"," ","s","e","e","."," ","A","n","d"," ","w","h","a","t"," ","d","o","e","s"," ","t","h","a","t"," ","t","e","l","l"," ","y","o","u","?">> }

\* the templates of the second declaration of "I want (.*)"
LaterTemplates ==
    << <<"W","h","a","t"," ","w","o","u","l","d"," ","i","t"," ","m","e","a","n"," ","i","f"," ","y","o","u"," ","g","o","t"," ","{","0","}","?">>,
       <<"W","h","y"," ","d","o"," ","y","o","u"," ","w","a","n","t"," ","{","0","}","?">>,
       <<"W","h","a","t"," ","w","o","u","l","d"," ","y","o","u"," ","d","o"," ","i","f"," ","y","o","u"," ","g","o","t"," ","{","0","}","?">> >>

\* C15: the table has one "I want (.*)" entry, with the templates of the
\* later declaration, before the entries "I need (.*)", "I am (.*)" and
\* "(.*) me (.*)"; a response is never one of the two templates that only
\* the earlier declaration has, filled with the fragment of the turn, and
\* the response of the "I want (.*)" entry is a later template, filled.
C15_LaterDeclarationShadows ==
    LET want == <<"I"," ","w","a","n","t"," ","(",".","*",")">>
        at   == {k \in 1..Len(responses) : responses[k].key = want}
    IN  /\ Cardinality(at) = 1
        /\ \A k \in at :
              /\ responses[k].resps = LaterTemplates
              /\ k < RuleOf(<<"I"," ","n","e","e","d"," ","(",".","*",")">>)
              /\ k < RuleOf(<<"I"," ","a","m"," ","(",".","*",")">>)
              /\ k < RuleOf(<<"(",".","*",")"," ","m","e"," ","(",".","*",")">>)
        /\ pc = "answered" =>
              \A k \in {FirstHit(user_input)} :
                 (k = 0 \/ responses[k].key # <<"d","e","f","a","u","l","t">>) =>
                    \A x \in {FragmentOf(user_input, k, tagger)} :
                       /\ \A t \in ShadowedTemplates : Response # format(t, x)
                       /\ k \in at =>
                             /\ pattern = want
                             /\ \E t \in Range(LaterTemplates) : Response = format(t, x)

\* "I want you" is answered by the one "I want (.*)" entry with the template
\* that only the later declaration has
C15_Witness ==
    /\ pc = "answered"
    /\ user_input = <<"I"," ","w","a","n","t"," ","y","o","u">>
    /\ pattern = <<"I"," ","w","a","n","t"," ","(",".","*",")">>
    /\ Cardinality({k \in 1..Len(declared) : declared[k].key = pattern}) = 2
    /\ Response = <<"W","h","a","t"," ","w","o","u","l","d"," ","i","t"," ","m","e","a","n"," ","i","f"," ","y","o","u"," ","g","o","t"," ","I","?">>

----------------------------------------------------------------------------
(* The contraction normaliser on its own: it is applied to a text, and     *)
(* then to its own result.                                                  *)

ContractionParts ==
    { <<"d","o">>, <<"I">>, <<" ">>, <<".">>,
      <<" ","n","'","t">>, <<" ","'","m">>, <<" ","'","l","l">>, <<"n","'","t">> }

ContractionInputs == {Concat(ps) : ps \in SeqUpTo(ContractionParts, MaxParts)}

InitContractions ==
    /\ pc = "text"
    /\ arg \in ContractionInputs
    /\ ret = Nothing /\ ret2 = Nothing
    /\ user_name = Nothing /\ user_input = Nothing /\ printed = NoPrint
    /\ pattern = Nothing /\ adapted = FALSE /\ tagger = NoTagger

Normalize ==
    /\ pc = "text"
    /\ ret' = handle_contractions(arg)
    /\ pc' = "normalized"
    /\ UNCHANGED <<user_name, user_input, printed, pattern, adapted, tagger, arg, ret2>>

NormalizeAgain ==
    /\ pc = "normalized"
    /\ ret2' = handle_contractions(ret)
    /\ pc' = "renormalized"
    /\ UNCHANGED <<user_name, user_input, printed, pattern, adapted, tagger, arg, ret>>

NextContractions == Normalize \/ NormalizeAgain

SpecContractions == InitContractions /\ [][NextContractions]_vars

\* C8: handle_contractions is idempotent: normalising a normalised text
\* changes nothing, also when several suffixes follow one another.
C8_Idempotent == pc = "renormalized" => ret2 = ret

\* end of the maximal run of whitespace starting at p
SpaceEnd(s, p) ==
    Min({q \in p..(Len(s) + 1) : q = Len(s) + 1 \/ ~IsSpace(s[q])}) - 1

\* a word that starts at p, one or more whitespace characters, the suffix and
\* a word boundary: the index of the last character, 0 when p starts no such
\* occurrence
OccurrenceEnd(s, p, suffix) ==
    LET w  == WordEnd(s, p)
        sp == SpaceEnd(s, w + 1)
        e  == sp + Len(suffix)
    IN  IF /\ IsWordChar(s[p])
           /\ (p = 1 \/ ~IsWordChar(s[p - 1]))
           /\ sp > w
           /\ HasAt(s, sp + 1, suffix)
           /\ (e = Len(s) \/ ~IsWordChar(s[e + 1]))
        THEN e ELSE 0

\* s from position p on, with every such occurrence of the suffix replaced
\* by the word with the suffix attached
RECURSIVE MergedSuffix(_, _, _)
MergedSuffix(s, p, suffix) ==
    LET found == {q \in p..Len(s) : OccurrenceEnd(s, q, suffix) # 0}
    IN  IF found = {} THEN From(s, p)
        ELSE LET q == Min(found)
             IN  SubSeq(s, p, q - 1) \o SubSeq(s, q, WordEnd(s, q)) \o suffix
                     \o MergedSuffix(s, OccurrenceEnd(s, q, suffix) + 1, suffix)

\* the same for the six suffixes, one after the other from the i-th on
RECURSIVE MergedFrom(_, _)
MergedFrom(s, i) ==
    LET suffixes == << <<"n","'","t">>, <<"'","l","l">>, <<"'","v","e">>,
                       <<"'","r","e">>, <<"'","d">>, <<"'","m">> >>
    IN  IF i > Len(suffixes) THEN s
        ELSE MergedFrom(MergedSuffix(s, 1, suffixes[i]), i + 1)

\* C14: handle_contractions attaches each of the six suffixes to the word
\* before it whatever the number of whitespace characters between them, and
\* leaves all other text, and the empty text, as it is.
C14_MergesAnyWhitespace == pc = "normalized" => ret = MergedFrom(arg, 1)

----------------------------------------------------------------------------
(* The pronoun/verb transformer on its own: it is applied to a clause, and *)
(* then to its own result.                                                  *)

TransformVocabulary ==
    { <<"I">>, <<"a","m">>, <<"h","a","p","p","y">>, <<"y","o","u">>,
      <<"i","s","n","'","t">>, <<"i","s">>, <<"d","o">>, <<"n","'","t">> }

TransformInputs ==
    {join(<<" ">>, ws) : ws \in SeqUpTo(TransformVocabulary, MaxWords)}

InitTransform ==
    /\ pc = "clause"
    /\ arg \in TransformInputs
    /\ ret = Nothing /\ ret2 = Nothing
    /\ user_name = Nothing /\ user_input = Nothing /\ printed = NoPrint
    /\ pattern = Nothing /\ adapted = FALSE /\ tagger = NoTagger

Transform ==
    /\ pc = "clause"
    /\ ret' = transform_pronouns(arg)
    /\ pc' = "swapped"
    /\ UNCHANGED <<user_name, user_input, printed, pattern, adapted, tagger, arg, ret2>>

TransformBack ==
    /\ pc = "swapped"
    /\ ret2' = transform_pronouns(ret)
    /\ pc' = "swapped back"
    /\ UNCHANGED <<user_name, user_input, printed, pattern, adapted, tagger, arg, ret>>

NextTransform == Transform \/ TransformBack

SpecTransform == InitTransform /\ [][NextTransform]_vars

\* t occurs in s as a run of consecutive characters
Contains(s, t) == \E p \in 1..(Len(s) + 1) : HasAt(s, p, t)

\* C6 as stated: the result of transform_pronouns has as many
\* whitespace-delimited tokens as its input.
C6_SameTokenCount == pc = "swapped" => Len(split(ret)) = Len(split(arg))

\* the token "isn't" follows a token that is swapped to "I"
ExpandsIsnt(s) ==
    LET words == split(lower(s))
    IN  \E i \in 2..Len(words) : words[i] = <<"i","s","n","'","t">> /\ words[i - 1] = <<"y","o","u">>

\* the final handle_contractions attaches a token to the one before it
MergesSuffix(s) == handle_contractions(transformed_string(s)) # transformed_string(s)

\* C6, amended: the loop emits one entry for each input token, and the
\* result has as many tokens as the input unless "isn't" after "you" became
\* the two tokens "am not" or the final handle_contractions attached a
\* suffix token to the token before it.
C6_TokenCountAmended ==
    pc = "swapped" =>
        /\ Len(transform_words(split(lower(arg)), 1, <<>>)) = Len(split(arg))
        /\ (~ExpandsIsnt(arg) /\ ~MergesSuffix(arg)) => Len(split(ret)) = Len(split(arg))

\* a pronoun was swapped and a verb agreed, and the token count is kept
C6_Witness ==
    /\ pc = "swapped"
    /\ arg = <<"y","o","u"," ","i","s"," ","h","a","p","p","y">>
    /\ ret = <<"I"," ","a","m"," ","h","a","p","p","y">>

\* C7: "I am happy" becomes a clause containing "you are happy", and
\* transforming that again gives a clause containing "I am happy".
C7_RoundTrip ==
    (pc = "swapped back" /\ arg = <<"I"," ","a","m"," ","h","a","p","p","y">>) =>
        /\ Contains(ret, <<"y","o","u"," ","a","r","e"," ","h","a","p","p","y">>)
        /\ Contains(ret2, <<"I"," ","a","m"," ","h","a","p","p","y">>)

----------------------------------------------------------------------------
(* The grammar mood adapter on its own, for every tag the tagger can give  *)
(* to the word after "I am".                                                *)

GrammarVocabulary ==
    { <<"I">>, <<"a","m">>, <<"I","'","m">>, <<"A","M">>,
      <<"t","i","r","e","d">>, <<"d","o","c","t","o","r">> }

GrammarInputs ==
    {join(<<" ">>, ws) : ws \in SeqUpTo(GrammarVocabulary, MaxWords)}

InitGrammar ==
    /\ pc = "clause"
    /\ arg \in GrammarInputs
    /\ tagger \in [nouns : {{}}, tag : Tags]
    /\ ret = Nothing /\ ret2 = Nothing
    /\ user_name = Nothing /\ user_input = Nothing /\ printed = NoPrint
    /\ pattern = Nothing /\ adapted = FALSE

Adapt ==
    /\ pc = "clause"
    /\ ret' = handle_grammar(arg, tagger)
    /\ pc' = "adapted"
    /\ UNCHANGED <<user_name, user_input, printed, pattern, adapted, tagger, arg, ret2>>

NextGrammar == Adapt

SpecGrammar == InitGrammar /\ [][NextGrammar]_vars

\* the mood table: the result for remainder r whose first token has tag t
MoodTable(t, r) ==
    CASE t \in {<<"J","J">>, <<"J","J","R">>, <<"J","J","S">>,
                <<"R","B">>, <<"R","B","R">>, <<"R","B","S">>}
            -> <<"f","e","e","l","i","n","g"," ">> \o r
      [] t = <<"V","B","G">>
            -> r
      [] t \in {<<"V","B">>, <<"V","B","D">>, <<"V","B","N">>, <<"V","B","P">>, <<"V","B","Z">>}
            -> <<"b","e","i","n","g"," ">> \o r
      [] t = <<"N","N">>
            -> <<"b","e","i","n","g"," ","a"," ">> \o r
      [] t \in {<<"N","N","S">>, <<"N","N","P">>, <<"N","N","P","S">>,
                <<"P","R","P">>, <<"P","R","P","$">>, <<"R","P">>, <<"I","N">>,
                <<"D","T">>, <<"P","D","T">>, <<"W","D","T">>, <<"C","D">>,
                <<"L","S">>, <<"S","Y","M">>, <<"W","P">>, <<"W","R","B">>}
            -> <<"b","e","i","n","g"," ">> \o r
      [] t = <<"T","O">>
            -> <<"t","r","y","i","n","g"," ">> \o r
      [] t \in {<<"C","C">>, <<"E","X">>, <<"F","W">>, <<"U","H">>, <<"P","O","S">>}
            -> <<"w","h","a","t","e","v","e","r"," ">> \o r \o <<" ","m","e","a","n","s">>
      [] OTHER -> r

----------------------------------------------------------------------------
(* The response simplifier on its own, for every choice of the words the   *)
(* tagger calls nouns.                                                      *)

SimplifyVocabulary ==
    { <<"g","o","i","n","g">>, <<"t","h","e">>, <<"s","t","o","r","e">>,
      <<"s","t","o","r","e",",">>, <<"r","e","a","l","l","y",".">>,
      <<"d","o","n","'","t">>, <<"w","h","y","?">> }

SimplifyNouns == { <<"s","t","o","r","e">>, <<"g","o","i","n","g">>, <<"d","o">> }

SimplifyInputs ==
    {join(<<" ">>, ws) : ws \in SeqUpTo(SimplifyVocabulary, MaxWords)}

InitSimplify ==
    /\ pc = "clause"
    /\ arg \in SimplifyInputs
    /\ tagger \in [nouns : SUBSET SimplifyNouns, tag : {NoTag}]
    /\ ret = Nothing /\ ret2 = Nothing
    /\ user_name = Nothing /\ user_input = Nothing /\ printed = NoPrint
    /\ pattern = Nothing /\ adapted = FALSE

Simplify ==
    /\ pc = "clause"
    /\ ret' = simplify_response(arg, tagger)
    /\ pc' = "simplified"
    /\ UNCHANGED <<user_name, user_input, printed, pattern, adapted, tagger, arg, ret2>>

NextSimplify == Simplify

SpecSimplify == InitSimplify /\ [][NextSimplify]_vars

Punctuation == { <<".">>, <<"!">>, <<"?">>, <<",">> }

\* the token-prefix the simplifier is to keep
KeptPrefix(tokens, nouns) ==
    LET stops == {i \in 1..Len(tokens) : tokens[i] \in Punctuation \/ tokens[i] \in nouns}
    IN  IF stops = {} THEN tokens
        ELSE LET k == CHOOSE i \in stops : \A j \in stops : i <= j
             IN  IF tokens[k] \in Punctuation
                 THEN SubSeq(tokens, 1, k - 1)
                 ELSE SubSeq(tokens, 1, k)

\* C10: the result is built from the prefix of the tokens that ends before
\* the first punctuation token or with the first noun-tagged token,
\* whichever comes first (all tokens if there is neither); that prefix holds
\* no punctuation token, and a noun-tagged token only as its last one.
C10_TokenPrefix ==
    pc = "simplified" =>
        LET tokens == word_tokenize(arg)
            kept == KeptPrefix(tokens, tagger.nouns)
        IN  /\ ret = handle_contractions(collapse_spaces(join(<<" ">>, kept)))
            /\ \A i \in 1..Len(kept) : kept[i] \notin Punctuation
            /\ \A i \in 1..Len(kept) : kept[i] \in tagger.nouns => i = Len(kept)
            /\ \A i \in 1..Len(word_tokenize(ret)) : word_tokenize(ret)[i] \notin Punctuation

\* "going the store, really." stops after the noun "store", before the comma
C10_Witness ==
    /\ pc = "simplified"
    /\ arg = <<"g","o","i","n","g"," ","t","h","e"," ","s","t","o","r","e",",">>
    /\ tagger.nouns = { <<"s","t","o","r","e">> }
    /\ ret = <<"g","o","i","n","g"," ","t","h","e"," ","s","t","o","r","e">>

====
